---- MODULE Spec2Model ----
(***************************************************************************)
(* DuoNova resume processing: strategy selection (rules, overrides,        *)
(* availability, cost policy), multi-provider extraction with fallback,    *)
(* the upload pipeline, validation, text normalization and the runtime     *)
(* configuration endpoints.                                                *)
(*                                                                         *)
(* Conventions.  Python None is the value None.  A configuration value is  *)
(* the raw string of os.environ; PROVIDER_PRIORITY is kept as the sequence *)
(* of its comma-separated pieces (str.split(",") already applied), each    *)
(* piece a raw token that still has its case and blanks.  File names are   *)
(* sequences of characters.  Confidences are in hundredths (95 = 0.95).    *)
(* A Python dict is a function on its keys; os.environ is such a dict and  *)
(* an unset key is absent from it.  All request handlers are coroutines of *)
(* one event loop: a handler runs until it awaits.                         *)
(***************************************************************************)
EXTENDS Integers, Sequences, FiniteSets, TLC

VARIABLES
    environ,    \* os.environ: the processing configuration keys, the API key, session overrides
    service,    \* credentials seen by ResumeProcessingService.__init__
    sel,        \* the select_processing_strategy call in flight (locals, position)
    envSeen,    \* history: the configuration states that existed during that call
    adm,        \* the configuration request being answered: endpoint and status
    ex,         \* the last extract_structured_data call: inputs, adapter calls, outcome
    up,         \* the last upload_resume request: inputs and outcome
    val,        \* the last validate_data call: the dict and the report
    norm        \* the last text normalization: the text, its normal form, that form's normal form

vars == <<environ, service, sel, envSeen, adm, ex, up, val, norm>>

None == "None"

\* ------------------------------------------------------------------ enums

ProcessingMode == {"hybrid", "complete_llm"}

LLMProvider == {"auto", "openai", "groq", "anthropic"}

DEFAULT_PROCESSING_MODE == "hybrid"

DEFAULT_PROVIDER_PRIORITY == <<"groq", "openai", "anthropic">>

\* ------------------------------------------------------------------ strings

UpperChars == <<"A","B","C","D","E","F","G","H","I","J","K","L","M",
                "N","O","P","Q","R","S","T","U","V","W","X","Y","Z">>

LowerChars == <<"a","b","c","d","e","f","g","h","i","j","k","l","m",
                "n","o","p","q","r","s","t","u","v","w","x","y","z">>

\* str.lower() on one character
LowerChar(c) ==
    IF \E i \in 1..Len(UpperChars) : UpperChars[i] = c
    THEN LowerChars[CHOOSE i \in 1..Len(UpperChars) : UpperChars[i] = c]
    ELSE c

\* str.lower() on a character sequence
LowerName(s) == [i \in 1..Len(s) |-> LowerChar(s[i])]

\* os.path.splitext(p)[1] for a name without directory separators: the suffix
\* from the last dot, unless only dots precede that dot (".pdf" has no extension)
SplitExt(p) ==
    LET dots == {i \in 1..Len(p) : p[i] = "."}
    IN  IF dots = {} THEN <<>>
        ELSE LET d == CHOOSE i \in dots : \A j \in dots : j <= i
             IN  IF \E k \in 1..(d - 1) : p[k] # "."
                 THEN SubSeq(p, d, Len(p))
                 ELSE <<>>

\* str.endswith(suffix)
EndsWith(s, suffix) ==
    /\ Len(s) >= Len(suffix)
    /\ SubSeq(s, Len(s) - Len(suffix) + 1, Len(s)) = suffix

\* str.lower() on the configuration tokens that occur
Lower(t) ==
    CASE t = "HYBRID" -> "hybrid"
      [] t = "Groq"   -> "groq"
      [] t = " OpenAI" -> " openai"
      [] OTHER -> t

\* str.strip() on the configuration tokens that occur
Strip(t) ==
    CASE t = " OpenAI" -> "OpenAI"
      [] t = " openai" -> "openai"
      [] OTHER -> t

EXT_PDF  == <<".", "p", "d", "f">>
EXT_DOCX == <<".", "d", "o", "c", "x">>
EXT_TXT  == <<".", "t", "x", "t">>

\* ------------------------------------------------------------------ configuration

MB == 1048576

\* PROCESSING_RULES in declaration order (a dict keeps insertion order).  A size
\* condition "<op><n>" is kept as operator and megabyte value.
PROCESSING_RULES == <<
    [name |-> "large_files", mode |-> "complete_llm",
     preferred_providers |-> <<"openai", "anthropic">>,
     description |-> "Large files (>5MB) benefit from direct LLM processing",
     conditions |-> [file_size_mb |-> [op |-> ">", mb |-> 5]]],
    [name |-> "pdf_files", mode |-> "complete_llm",
     preferred_providers |-> <<"openai", "anthropic">>,
     description |-> "PDF files often need OCR capabilities of advanced LLMs",
     conditions |-> [file_extension |-> {EXT_PDF}]],
    [name |-> "docx_files", mode |-> "hybrid",
     preferred_providers |-> <<"groq", "openai">>,
     description |-> "DOCX files extract well with libraries, hybrid is efficient",
     conditions |-> [file_extension |-> {EXT_DOCX}]],
    [name |-> "small_text_files", mode |-> "hybrid",
     preferred_providers |-> <<"groq">>,
     description |-> "Small text files are perfect for fast hybrid processing",
     conditions |-> [file_size_mb |-> [op |-> "<", mb |-> 1],
                     file_extension |-> {EXT_TXT}]],
    [name |-> "complex_resumes", mode |-> "complete_llm",
     preferred_providers |-> <<"openai", "anthropic">>,
     description |-> "Complex layouts need advanced LLM understanding",
     conditions |-> [complexity |-> "high"]] >>

\* PROVIDER_CONFIGS in declaration order
PROVIDER_CONFIGS == <<
    [provider |-> "groq", name |-> "Groq",
     strengths |-> {"speed", "cost_effective", "text_processing"},
     limitations |-> {"no_file_upload", "rate_limits"},
     cost_tier |-> "free"],
    [provider |-> "openai", name |-> "OpenAI GPT-4",
     strengths |-> {"file_upload", "comprehensive_analysis", "accuracy"},
     limitations |-> {"cost", "rate_limits"},
     cost_tier |-> "premium"],
    [provider |-> "anthropic", name |-> "Claude",
     strengths |-> {"large_context", "detailed_analysis", "file_upload"},
     limitations |-> {"cost", "availability"},
     cost_tier |-> "premium"] >>

ProviderConfig(p) ==
    PROVIDER_CONFIGS[CHOOSE i \in 1..Len(PROVIDER_CONFIGS) : PROVIDER_CONFIGS[i].provider = p]

\* os.getenv(key, default): os.environ is a dict, an unset key is absent
getenv(e, key, default) == IF key \in DOMAIN e THEN e[key] ELSE default

\* os.environ[key] = value
setenv(e, key, value) ==
    [k \in DOMAIN e \cup {key} |-> IF k = key THEN value ELSE e[k]]

\* ProcessingConfig.get_default_processing_mode
get_default_processing_mode(e) ==
    LET env_mode == getenv(e, "DEFAULT_PROCESSING_MODE", DEFAULT_PROCESSING_MODE)
    IN  IF Lower(env_mode) \in ProcessingMode
        THEN Lower(env_mode)
        ELSE DEFAULT_PROCESSING_MODE

\* get_provider_priority that drops the invalid pieces and keeps the others
get_provider_priority_valid_only(e) ==
    LET env_priority == getenv(e, "PROVIDER_PRIORITY", <<>>)
        valid == SelectSeq(env_priority, LAMBDA t : Lower(Strip(t)) \in LLMProvider)
    IN  IF valid # <<>>
        THEN [i \in 1..Len(valid) |-> Lower(Strip(valid[i]))]
        ELSE DEFAULT_PROVIDER_PRIORITY

\* ProcessingConfig.get_provider_priority
get_provider_priority(e) ==
    LET env_priority == getenv(e, "PROVIDER_PRIORITY", <<>>)
    IN  IF env_priority # <<>>
           /\ \A i \in 1..Len(env_priority) : Lower(Strip(env_priority[i])) \in LLMProvider
        THEN [i \in 1..Len(env_priority) |-> Lower(Strip(env_priority[i]))]
        ELSE DEFAULT_PROVIDER_PRIORITY

\* ProcessingConfig.is_cost_optimization_enabled
is_cost_optimization_enabled(e) ==
    Lower(getenv(e, "ENABLE_COST_OPTIMIZATION", "true")) = "true"

\* _matches_conditions with closed thresholds: the boundary size satisfies the condition
matches_conditions_closed(conditions, file_extension, file_size_bytes) ==
    /\ ("file_extension" \in DOMAIN conditions
            => file_extension \in conditions.file_extension)
    /\ ("file_size_mb" \in DOMAIN conditions =>
            LET c == conditions.file_size_mb
            IN  /\ (c.op = ">" => ~(file_size_bytes < c.mb * MB))
                /\ (c.op = "<" => ~(file_size_bytes > c.mb * MB)))

\* ProcessingConfig._matches_conditions.  file_size_mb is size_bytes / 2^20, an
\* exact float for every size below 2^53, so each comparison with the threshold is
\* the comparison of size_bytes with threshold * 2^20.
matches_conditions(conditions, file_extension, file_size_bytes) ==
    /\ ("file_extension" \in DOMAIN conditions
            => file_extension \in conditions.file_extension)
    /\ ("file_size_mb" \in DOMAIN conditions =>
            LET c == conditions.file_size_mb
            IN  /\ (c.op = ">" => ~(file_size_bytes <= c.mb * MB))
                /\ (c.op = "<" => ~(file_size_bytes >= c.mb * MB)))

RECURSIVE ScanRules(_, _, _)
\* the loop of evaluate_file_rules from rule i on: the index of the rule returned, 0 for None
ScanRules(i, file_extension, file_size_bytes) ==
    IF i > Len(PROCESSING_RULES) THEN 0
    ELSE IF matches_conditions(PROCESSING_RULES[i].conditions, file_extension, file_size_bytes)
         THEN i
         ELSE ScanRules(i + 1, file_extension, file_size_bytes)

\* evaluate_file_rules as a scan that keeps the last matching rule
evaluate_file_rules_last(file_name, file_size_bytes) ==
    LET m == {i \in 1..Len(PROCESSING_RULES) :
                matches_conditions(PROCESSING_RULES[i].conditions,
                                   SplitExt(LowerName(file_name)), file_size_bytes)}
    IN  IF m = {} THEN 0 ELSE CHOOSE i \in m : \A j \in m : j <= i

\* ProcessingConfig.evaluate_file_rules: index into PROCESSING_RULES, 0 for None
evaluate_file_rules(file_name, file_size_bytes) ==
    ScanRules(1, SplitExt(LowerName(file_name)), file_size_bytes)

\* ------------------------------------------------------------------ selection

\* ResumeProcessingService.file_upload_support
file_upload_support == [openai |-> TRUE, groq |-> FALSE, anthropic |-> TRUE]

\* ProcessingSelectionService._estimate_file_complexity; the extension is the text
\* after the last dot of the name
estimate_file_complexity(file_name, file_size_bytes) ==
    LET dots == {i \in 1..Len(file_name) : file_name[i] = "."}
        last == IF dots = {} THEN 0 ELSE CHOOSE i \in dots : \A j \in dots : j <= i
        extension == LowerName(SubSeq(file_name, last + 1, Len(file_name)))
    IN  IF file_size_bytes > 5 * MB THEN "high"
        ELSE IF file_size_bytes > 2 * MB THEN "medium"
        ELSE IF extension = <<"p", "d", "f">> THEN "medium"
        ELSE "low"

\* the key order of the dict returned by get_available_providers
AVAILABLE_KEYS == <<"openai", "groq">>

\* ResumeProcessingService.get_available_providers
get_available_providers(s) ==
    [openai |-> s.openai_api_key, groq |-> s.groq_api_key /\ s.groq_client]

\* the exception of _select_best_provider
NO_PROVIDER == "raise: No LLM providers are currently available"

IsAvailable(available_providers, provider_key) ==
    provider_key \in DOMAIN available_providers /\ available_providers[provider_key]

\* _select_best_provider without the availability filter on the preferred list
select_best_provider_unfiltered(preferred_providers, available_providers) ==
    IF preferred_providers = <<>> THEN NO_PROVIDER ELSE preferred_providers[1]

\* _select_best_provider returning the last available provider of the preferred list
select_best_provider_last(preferred_providers, available_providers) ==
    LET ok(p) == IsAvailable(available_providers, p)
        available_preferred == SelectSeq(preferred_providers, ok)
        any == SelectSeq(AVAILABLE_KEYS, ok)
    IN  IF available_preferred = <<>>
        THEN IF any = <<>> THEN NO_PROVIDER ELSE any[1]
        ELSE available_preferred[Len(available_preferred)]

\* ProcessingSelectionService._select_best_provider: the provider, or NO_PROVIDER
select_best_provider(preferred_providers, available_providers) ==
    LET ok(p) == IsAvailable(available_providers, p)
        available_preferred == SelectSeq(preferred_providers, ok)
        any == SelectSeq(AVAILABLE_KEYS, ok)
    IN  IF available_preferred = <<>>
        THEN IF any = <<>> THEN NO_PROVIDER ELSE any[1]
        ELSE available_preferred[1]

\* the test of line 142 on a free-tier candidate
suitable_for_mode(config, processing_mode) ==
    processing_mode = "hybrid" \/ "text_processing" \in config.strengths

\* _apply_cost_optimization switching in hybrid mode only
apply_cost_optimization_hybrid_only(current_provider, available_providers, processing_mode) ==
    LET cheaper == SelectSeq(PROVIDER_CONFIGS,
                       LAMBDA c : /\ IsAvailable(available_providers, c.provider)
                                  /\ c.cost_tier = "free"
                                  /\ processing_mode = "hybrid")
    IN  IF ProviderConfig(current_provider).cost_tier = "free"
        THEN [provider |-> current_provider,
              reasoning |-> <<"Already using cost-effective provider">>]
        ELSE IF cheaper # <<>>
        THEN [provider |-> cheaper[1].provider,
              reasoning |-> <<"Cost optimization: switched to ", cheaper[1].name>>]
        ELSE [provider |-> current_provider,
              reasoning |-> <<"No cost-effective alternatives available">>]

\* ProcessingSelectionService._apply_cost_optimization: provider and cost reasoning
apply_cost_optimization(current_provider, available_providers, processing_mode) ==
    LET cheaper == SelectSeq(PROVIDER_CONFIGS,
                       LAMBDA c : /\ IsAvailable(available_providers, c.provider)
                                  /\ c.cost_tier = "free"
                                  /\ suitable_for_mode(c, processing_mode))
    IN  IF ProviderConfig(current_provider).cost_tier = "free"
        THEN [provider |-> current_provider,
              reasoning |-> <<"Already using cost-effective provider">>]
        ELSE IF cheaper # <<>>
        THEN [provider |-> cheaper[1].provider,
              reasoning |-> <<"Cost optimization: switched to ", cheaper[1].name>>]
        ELSE [provider |-> current_provider,
              reasoning |-> <<"No cost-effective alternatives available">>]

\* select_processing_strategy run where the loop can switch handlers between its reads
SelectAwaitPointsBetweenReads == {"line45", "line77"}

\* The positions of select_processing_strategy at which the coroutine running it
\* gives the event loop to another handler: it is a plain method that awaits
\* nothing, and its callers do not await between calling it and using its result.
SelectAwaitPoints == {}

\* no call in flight
SelectIdle ==
    [pc |-> "idle", file_name |-> <<>>, file_size_bytes |-> 0,
     explicit_config_mode |-> None, has_explicit_config |-> FALSE,
     rules_evaluated |-> FALSE, rule |-> 0, priority_read |-> FALSE,
     selected_mode |-> None, preferred_providers |-> <<>>, reasoning |-> <<>>,
     available_providers |-> [openai |-> FALSE, groq |-> FALSE],
     picked_provider |-> None, cost_read |-> FALSE, cost_enabled |-> FALSE,
     selected_provider |-> None]

\* line 41: explicit_config_mode = self.config.get_default_processing_mode()
select_line41(e, file_name, file_size_bytes) ==
    [SelectIdle EXCEPT !.pc = "line45",
                       !.file_name = file_name,
                       !.file_size_bytes = file_size_bytes,
                       !.explicit_config_mode = get_default_processing_mode(e)]

\* lines 45-66 with the rules consulted before the explicit configuration
select_line45_rules_first(l, e) ==
    LET applicable_rule == evaluate_file_rules(l.file_name, l.file_size_bytes)
    IN  IF applicable_rule # 0
        THEN [l EXCEPT !.pc = "line69",
                       !.rules_evaluated = TRUE,
                       !.rule = applicable_rule,
                       !.selected_mode = PROCESSING_RULES[applicable_rule].mode,
                       !.preferred_providers =
                            PROCESSING_RULES[applicable_rule].preferred_providers,
                       !.reasoning = <<"Rule-based: ",
                                       PROCESSING_RULES[applicable_rule].description>>]
        ELSE [l EXCEPT !.pc = "line69",
                       !.rules_evaluated = TRUE,
                       !.selected_mode = l.explicit_config_mode,
                       !.preferred_providers = get_provider_priority(e),
                       !.priority_read = TRUE,
                       !.reasoning = <<"Default configuration applied">>]

\* lines 45-66 where only a valid configured mode counts as explicit configuration
select_line45_valid_only(l, e) ==
    LET has_explicit_config == /\ "DEFAULT_PROCESSING_MODE" \in DOMAIN e
                               /\ Lower(e.DEFAULT_PROCESSING_MODE) \in ProcessingMode
        applicable_rule == evaluate_file_rules(l.file_name, l.file_size_bytes)
    IN  IF has_explicit_config
        THEN [l EXCEPT !.pc = "line69",
                       !.has_explicit_config = TRUE,
                       !.selected_mode = l.explicit_config_mode,
                       !.preferred_providers = get_provider_priority(e),
                       !.priority_read = TRUE,
                       !.reasoning = <<"Explicit configuration: ", l.explicit_config_mode,
                                       " mode (rules bypassed)">>]
        ELSE IF applicable_rule # 0
        THEN [l EXCEPT !.pc = "line69",
                       !.rules_evaluated = TRUE,
                       !.rule = applicable_rule,
                       !.selected_mode = PROCESSING_RULES[applicable_rule].mode,
                       !.preferred_providers =
                            PROCESSING_RULES[applicable_rule].preferred_providers,
                       !.reasoning = <<"Rule-based: ",
                                       PROCESSING_RULES[applicable_rule].description>>]
        ELSE [l EXCEPT !.pc = "line69",
                       !.rules_evaluated = TRUE,
                       !.selected_mode = l.explicit_config_mode,
                       !.preferred_providers = get_provider_priority(e),
                       !.priority_read = TRUE,
                       !.reasoning = <<"Default configuration applied">>]

\* lines 45-66: explicit configuration, a matching rule, or the defaults
select_line45(l, e) ==
    LET has_explicit_config == "DEFAULT_PROCESSING_MODE" \in DOMAIN e
        applicable_rule == evaluate_file_rules(l.file_name, l.file_size_bytes)
    IN  IF has_explicit_config
        THEN [l EXCEPT !.pc = "line69",
                       !.has_explicit_config = TRUE,
                       !.selected_mode = l.explicit_config_mode,
                       !.preferred_providers = get_provider_priority(e),
                       !.priority_read = TRUE,
                       !.reasoning = <<"Explicit configuration: ", l.explicit_config_mode,
                                       " mode (rules bypassed)">>]
        ELSE IF applicable_rule # 0
        THEN [l EXCEPT !.pc = "line69",
                       !.rules_evaluated = TRUE,
                       !.rule = applicable_rule,
                       !.selected_mode = PROCESSING_RULES[applicable_rule].mode,
                       !.preferred_providers =
                            PROCESSING_RULES[applicable_rule].preferred_providers,
                       !.reasoning = <<"Rule-based: ",
                                       PROCESSING_RULES[applicable_rule].description>>]
        ELSE [l EXCEPT !.pc = "line69",
                       !.rules_evaluated = TRUE,
                       !.selected_mode = l.explicit_config_mode,
                       !.preferred_providers = get_provider_priority(e),
                       !.priority_read = TRUE,
                       !.reasoning = <<"Default configuration applied">>]

\* lines 69-74: availability map and provider pick; the exception ends the call
select_line69(l, s) ==
    LET available_providers == get_available_providers(s)
        selected == select_best_provider(l.preferred_providers, available_providers)
    IN  [l EXCEPT !.pc = IF selected = NO_PROVIDER THEN "raised" ELSE "line77",
                  !.available_providers = available_providers,
                  !.picked_provider = selected,
                  !.selected_provider = selected]

\* lines 77-88: cost optimization and return
select_line77(l, e) ==
    LET cost == apply_cost_optimization(l.picked_provider, l.available_providers,
                                        l.selected_mode)
    IN  IF is_cost_optimization_enabled(e)
        THEN [l EXCEPT !.pc = "returned", !.cost_read = TRUE, !.cost_enabled = TRUE,
                       !.selected_provider = cost.provider,
                       !.reasoning = l.reasoning \o <<" | ">> \o cost.reasoning]
        ELSE [l EXCEPT !.pc = "returned", !.cost_read = TRUE]

\* ProcessingSelectionService.select_processing_strategy, start to end
select_processing_strategy(e, s, file_name, file_size_bytes) ==
    LET l69 == select_line69(select_line45(select_line41(e, file_name, file_size_bytes), e), s)
    IN  IF l69.pc = "raised" THEN l69 ELSE select_line77(l69, e)

\* ------------------------------------------------------------------ extraction values

\* A text, described by what the code asks of it: whether it is None, whether it
\* is truthy, whether strip() leaves anything, and which of the heuristic
\* extractor's patterns find something in it.
TextNone  == [kind |-> "none",  email |-> FALSE, name |-> FALSE,
              experience |-> FALSE, education |-> FALSE]
TextEmpty == [kind |-> "empty", email |-> FALSE, name |-> FALSE,
              experience |-> FALSE, education |-> FALSE]
TextBlank == [kind |-> "blank", email |-> FALSE, name |-> FALSE,
              experience |-> FALSE, education |-> FALSE]
TEXT_FULL == [kind |-> "content", email |-> TRUE, name |-> TRUE,
              experience |-> TRUE, education |-> TRUE]
TEXT_NO_EMAIL == [kind |-> "content", email |-> FALSE, name |-> TRUE,
                  experience |-> TRUE, education |-> TRUE]
TEXT_PLAIN == [kind |-> "content", email |-> FALSE, name |-> FALSE,
               experience |-> FALSE, education |-> FALSE]

Texts == {TextNone, TextEmpty, TextBlank, TEXT_FULL, TEXT_NO_EMAIL, TEXT_PLAIN}

\* `if text:`
Truthy(text) == text.kind \in {"blank", "content"}

\* `text.strip()` is not empty
StripTruthy(text) == text.kind = "content"

\* file_bytes: None, b"" or the bytes of a file
BytesValues == {"none", "empty", "content"}

\* `if file_bytes`
BytesTruthy(file_bytes) == file_bytes = "content"

REQUIRED_FIELDS == {"personal_info", "skills", "experience", "education"}

\* A dict returned by the extraction (or None): its keys, the keys whose value is
\* truthy, whether personal_info holds an email, and the values the code reads.
ResultNone ==
    [kind |-> "none", keys |-> {}, truthy |-> {}, email |-> FALSE, error |-> "",
     extraction_confidence |-> 0, used_provider |-> "", processing_method |-> ""]

\* {"error": message} and, for a response that does not parse, its raw text
ErrorDict(message, raw) ==
    [ResultNone EXCEPT !.kind = "dict",
                       !.keys = IF raw THEN {"error", "raw_response"} ELSE {"error"},
                       !.truthy = IF raw THEN {"error", "raw_response"} ELSE {"error"},
                       !.error = message]

\* the JSON objects a model answers with
PAYLOAD_FULL     == [keys |-> REQUIRED_FIELDS, truthy |-> REQUIRED_FIELDS, email |-> TRUE]
PAYLOAD_NO_EMAIL == [keys |-> REQUIRED_FIELDS, truthy |-> REQUIRED_FIELDS, email |-> FALSE]
PAYLOAD_SPARSE   == [keys |-> {"personal_info"}, truthy |-> {"personal_info"}, email |-> TRUE]
PAYLOAD_ERROR    == [keys |-> {"error"}, truthy |-> {"error"}, email |-> FALSE]
PAYLOAD_EMPTY    == [keys |-> {}, truthy |-> {}, email |-> FALSE]

Payloads == {PAYLOAD_FULL, PAYLOAD_NO_EMAIL, PAYLOAD_SPARSE, PAYLOAD_ERROR, PAYLOAD_EMPTY}

\* What the provider's API does with one request: the call fails (network,
\* authentication, quota), the answer is not JSON, the answer is JSON but not an
\* object, or the answer is a JSON object.
ApiError == [kind |-> "api_error", payload |-> PAYLOAD_EMPTY]

UpstreamOutcomes ==
    {[kind |-> k, payload |-> PAYLOAD_EMPTY] : k \in {"api_error", "unparsable", "non_object"}}
        \cup {[kind |-> "object", payload |-> p] : p \in Payloads}

Upstreams ==
    [openai_file : UpstreamOutcomes, openai_text : UpstreamOutcomes,
     groq_text : UpstreamOutcomes]

\* a call that raised, a call that returned r
Raised == [raised |-> TRUE, result |-> ResultNone]

Returned(r) == [raised |-> FALSE, result |-> r]

\* result = json.loads(...); result["extraction_confidence"] = confidence
Parsed(payload, confidence, processing_method) ==
    [kind |-> "dict",
     keys |-> payload.keys \cup {"extraction_confidence"}
                \cup (IF processing_method # "" THEN {"processing_method"} ELSE {}),
     truthy |-> payload.truthy \cup {"extraction_confidence"}
                \cup (IF processing_method # "" THEN {"processing_method"} ELSE {}),
     email |-> payload.email,
     error |-> IF "error" \in payload.keys THEN "error of the model" ELSE "",
     extraction_confidence |-> confidence,
     used_provider |-> "",
     processing_method |-> processing_method]

\* OpenAI(api_key=None) raises when the key is not configured
OpenAIOutcome(s, outcome) == IF s.openai_api_key THEN outcome ELSE ApiError

\* ------------------------------------------------------------------ extraction adapters

\* _extract_with_openai_file: everything from the client's construction on is
\* inside the try, and both except clauses return an error dict
extract_with_openai_file(s, outcome) ==
    LET o == OpenAIOutcome(s, outcome)
    IN  CASE o.kind = "api_error"  ->
                Returned(ErrorDict("OpenAI file processing error", FALSE))
          [] o.kind = "unparsable" ->
                Returned(ErrorDict("Failed to parse OpenAI file response", TRUE))
          [] o.kind = "non_object" ->
                Returned(ErrorDict("OpenAI file processing error", FALSE))
          [] o.kind = "object"     ->
                Returned(Parsed(o.payload, 95, "direct_file_upload"))

\* _extract_with_openai_text: the client and the request are outside the try, and
\* the try catches json.JSONDecodeError only
extract_with_openai_text(s, outcome) ==
    LET o == OpenAIOutcome(s, outcome)
    IN  CASE o.kind = "api_error"  -> Raised
          [] o.kind = "unparsable" ->
                Returned(ErrorDict("Failed to parse LLM response", TRUE))
          [] o.kind = "non_object" -> Raised
          [] o.kind = "object"     -> Returned(Parsed(o.payload, 90, ""))

\* _extract_with_groq_text: raises without a client; the text between the first
\* "{" and the last "}" is parsed, so an answer without an object does not parse
extract_with_groq_text(s, outcome) ==
    IF ~s.groq_client THEN Raised
    ELSE CASE outcome.kind = "api_error"  ->
                Returned(ErrorDict("Groq API error", FALSE))
           [] outcome.kind = "unparsable" ->
                Returned(ErrorDict("Failed to parse Groq response", TRUE))
           [] outcome.kind = "non_object" ->
                Returned(ErrorDict("Failed to parse Groq response", TRUE))
           [] outcome.kind = "object"     -> Returned(Parsed(outcome.payload, 85, ""))

\* _fallback_text_parsing: the result always has the same keys; personal_info,
\* experience and education are filled from what the patterns find
fallback_text_parsing(text) ==
    [kind |-> "dict",
     keys |-> {"personal_info", "skills", "experience", "education", "projects",
               "extraction_confidence", "extraction_method", "used_provider"},
     truthy |-> {"skills", "extraction_confidence", "extraction_method", "used_provider"}
                \cup (IF text.email \/ text.name THEN {"personal_info"} ELSE {})
                \cup (IF text.experience THEN {"experience"} ELSE {})
                \cup (IF text.education THEN {"education"} ELSE {}),
     email |-> text.email,
     error |-> "",
     extraction_confidence |-> 75,
     used_provider |-> "fallback_parser",
     processing_method |-> ""]

\* the provider order with Groq before OpenAI
provider_fallback_groq_first == <<"groq", "openai">>

\* self.provider_fallback
provider_fallback == <<"openai", "groq">>

Call(r, calls) == [raised |-> r.raised, result |-> r.result, calls |-> calls]

\* _extract_with_provider; calls lists the adapters it called, in order
extract_with_provider(s, file_bytes, text, provider, upstream) ==
    IF provider = "openai"
    THEN IF BytesTruthy(file_bytes) /\ file_upload_support["openai"]
         THEN LET f == extract_with_openai_file(s, upstream.openai_file)
              IN  IF ~f.raised THEN Call(f, <<"openai_file">>)
                  ELSE IF Truthy(text)
                  THEN Call(extract_with_openai_text(s, upstream.openai_text),
                            <<"openai_file", "openai_text">>)
                  ELSE Call(Returned(ResultNone), <<"openai_file">>)
         ELSE IF Truthy(text)
         THEN Call(extract_with_openai_text(s, upstream.openai_text), <<"openai_text">>)
         ELSE Call(Raised, <<>>)
    ELSE IF provider = "groq"
    THEN IF Truthy(text)
         THEN Call(extract_with_groq_text(s, upstream.groq_text), <<"groq_text">>)
         ELSE Call(Raised, <<>>)
    ELSE Call(Raised, <<>>)

\* `if result and "error" not in result`
Succeeded(r) == ~r.raised /\ r.result.kind = "dict" /\ r.result.keys # {}
                    /\ "error" \notin r.result.keys

\* lines 75-76: the provider and the method are written into the result
Stamp(result, provider, file_bytes) ==
    [result EXCEPT !.keys = @ \cup {"used_provider", "processing_method"},
                   !.truthy = @ \cup {"used_provider", "processing_method"},
                   !.used_provider = provider,
                   !.processing_method =
                        IF BytesTruthy(file_bytes) /\ file_upload_support[provider]
                        THEN "direct_file" ELSE "text_extraction"]

\* lines 71-88 with the heuristic extractor left out
RECURSIVE try_providers_no_heuristic(_, _, _, _, _, _)
try_providers_no_heuristic(i, s, file_bytes, text, upstream, calls) ==
    IF i > Len(provider_fallback)
    THEN Call(Raised, calls)
    ELSE LET r == extract_with_provider(s, file_bytes, text, provider_fallback[i], upstream)
         IN  IF Succeeded(r)
             THEN Call(Returned(Stamp(r.result, provider_fallback[i], file_bytes)),
                       calls \o r.calls)
             ELSE try_providers_no_heuristic(i + 1, s, file_bytes, text, upstream,
                                             calls \o r.calls)

\* lines 71-88: the providers in order, then the heuristic extractor, then the exception
RECURSIVE try_providers(_, _, _, _, _, _)
try_providers(i, s, file_bytes, text, upstream, calls) ==
    IF i > Len(provider_fallback)
    THEN IF Truthy(text)
         THEN Call(Returned(fallback_text_parsing(text)), calls \o <<"fallback_parser">>)
         ELSE Call(Raised, calls)
    ELSE LET r == extract_with_provider(s, file_bytes, text, provider_fallback[i], upstream)
         IN  IF Succeeded(r)
             THEN Call(Returned(Stamp(r.result, provider_fallback[i], file_bytes)),
                       calls \o r.calls)
             ELSE try_providers(i + 1, s, file_bytes, text, upstream, calls \o r.calls)

ProviderArguments == {None, "auto", "openai", "groq", "anthropic"}

\* `if provider and provider != "auto"`
ProviderForced(provider) == provider # None /\ provider # "auto"

\* extract_structured_data without the heuristic extractor after the providers
extract_structured_data_no_heuristic(s, file_bytes, text, provider, upstream) ==
    IF ProviderForced(provider)
    THEN extract_with_provider(s, file_bytes, text, provider, upstream)
    ELSE try_providers_no_heuristic(1, s, file_bytes, text, upstream, <<>>)

\* extract_structured_data that goes through the providers whatever provider is asked
extract_structured_data_always_auto(s, file_bytes, text, provider, upstream) ==
    try_providers(1, s, file_bytes, text, upstream, <<>>)

\* extract_structured_data that answers with the heuristic extractor instead of raising
extract_structured_data_never_raises(s, file_bytes, text, provider, upstream) ==
    LET r == IF ProviderForced(provider)
             THEN extract_with_provider(s, file_bytes, text, provider, upstream)
             ELSE try_providers(1, s, file_bytes, text, upstream, <<>>)
    IN  IF r.raised /\ ~ProviderForced(provider)
        THEN Call(Returned(fallback_text_parsing(text)), r.calls \o <<"fallback_parser">>)
        ELSE r

\* ResumeProcessingService.extract_structured_data
extract_structured_data(s, file_bytes, text, provider, upstream) ==
    IF ProviderForced(provider)
    THEN extract_with_provider(s, file_bytes, text, provider, upstream)
    ELSE try_providers(1, s, file_bytes, text, upstream, <<>>)

\* no extraction call in flight
ExtractIdle ==
    [pc |-> "idle", file_bytes |-> "none", text |-> TextNone, provider |-> None,
     upstream |-> [openai_file |-> ApiError, openai_text |-> ApiError,
                   groq_text |-> ApiError],
     raised |-> FALSE, result |-> ResultNone, calls |-> <<>>]

\* ------------------------------------------------------------------ upload pipeline

\* the bytes read from the upload
Contents(size) == IF size = 0 THEN "empty" ELSE "content"

\* lines 389-393: the email found by the library is written into the result
Enrich(resume_data, primary_email) ==
    IF primary_email /\ ~resume_data.email
    THEN [resume_data EXCEPT !.keys = @ \cup {"personal_info"},
                             !.truthy = @ \cup {"personal_info"},
                             !.email = TRUE]
    ELSE resume_data

\* lines 407-412
critical_fields(processing_mode) ==
    IF processing_mode = "complete_llm" THEN {"personal_info"}
    ELSE {"personal_info", "skills", "experience"}

\* no upload request in flight
UploadIdle ==
    [pc |-> "idle", file_name |-> <<>>, size |-> 0,
     library |-> [raised |-> TRUE, text |-> TextNone],
     upstream |-> [openai_file |-> ApiError, openai_text |-> ApiError,
                   groq_text |-> ApiError],
     stage |-> "none", status |-> 0,
     selected_mode |-> None, processing_mode |-> None, selected_provider |-> None,
     raw_text |-> TextNone, primary_email |-> FALSE,
     extract_raised |-> FALSE, extracted |-> ResultNone, calls |-> <<>>,
     resume_data |-> ResultNone]

Answer(u, stage, status) == [u EXCEPT !.pc = "answered", !.stage = stage, !.status = status]

\* upload_resume, lines 278-305: the size check and the selection; d is what
\* select_processing_strategy returned or raised (an exception nobody catches
\* is answered with a 500)
upload_select(u, d) ==
    IF u.size > 10 * MB THEN Answer(u, "size", 413)
    ELSE IF d.pc = "raised" THEN Answer(u, "select", 500)
    ELSE [u EXCEPT !.pc = "text",
                   !.selected_mode = d.selected_mode,
                   !.selected_provider = d.selected_provider]

\* lines 308-334: in hybrid mode the library extracts the text; when it raises or
\* finds nothing the request goes on in complete_llm mode; the first email of
\* the text is kept
upload_text(u) ==
    LET library_failed == u.library.raised \/ ~StripTruthy(u.library.text)
        processing_mode == IF u.selected_mode = "hybrid" /\ library_failed
                           THEN "complete_llm" ELSE u.selected_mode
        raw_text == IF u.selected_mode = "hybrid" /\ ~u.library.raised
                    THEN u.library.text ELSE TextNone
    IN  [u EXCEPT !.pc = "extract",
                  !.processing_mode = processing_mode,
                  !.raw_text = raw_text,
                  !.primary_email = Truthy(raw_text) /\ processing_mode = "hybrid"
                                        /\ raw_text.email]

\* lines 346-396: extraction with the selected provider, then the enrichment;
\* every exception on the way is answered with a 500
upload_extract(s, u) ==
    LET provider_supports_files == file_upload_support[u.selected_provider]
        library_failed == u.library.raised \/ ~StripTruthy(u.library.text)
        \* lines 364-372: a provider without file upload needs the text
        text_required == u.processing_mode = "complete_llm" /\ ~provider_supports_files
        file_bytes == IF provider_supports_files THEN Contents(u.size) ELSE "none"
        text == IF u.processing_mode = "complete_llm"
                THEN (IF provider_supports_files THEN TextNone ELSE u.library.text)
                ELSE u.raw_text
        r == extract_structured_data(s, file_bytes, text, u.selected_provider, u.upstream)
    IN  IF text_required /\ library_failed THEN Answer(u, "text", 500)
        ELSE LET u1 == [u EXCEPT !.raw_text = IF text_required THEN text ELSE @,
                                 !.extract_raised = r.raised,
                                 !.extracted = r.result,
                                 !.calls = r.calls]
             IN  IF r.raised \/ r.result.kind = "none" THEN Answer(u1, "extract", 500)
                 ELSE [u1 EXCEPT !.pc = "validate",
                                 !.stage = "extract",
                                 !.resume_data = Enrich(r.result, u.primary_email)]

\* lines 404-428: the critical sections and the email; a request that passes
\* goes on to be stored
upload_validate(u) ==
    LET missing_critical == critical_fields(u.processing_mode) \ u.resume_data.truthy
        final_email == u.resume_data.email \/ u.primary_email
    IN  IF ~final_email /\ u.processing_mode # "complete_llm"
        THEN Answer(u, "validate", 400)
        ELSE IF missing_critical # {} THEN Answer(u, "validate", 400)
        ELSE [u EXCEPT !.pc = "storing", !.stage = "store"]

\* ------------------------------------------------------------------ validation values

\* The value under "personal_info": the key is absent, the value is None, a dict
\* (empty when truthy is FALSE; name and email say whether .get() finds a
\* non-empty value), or a truthy value that is not a dict (a string, a list).
PersonalInfos ==
    {[ty |-> t, truthy |-> FALSE, name |-> FALSE, email |-> FALSE] : t \in {"absent", "none", "dict"}}
        \cup {[ty |-> "dict", truthy |-> TRUE, name |-> n, email |-> e] : n, e \in BOOLEAN}
        \cup {[ty |-> "str", truthy |-> TRUE, name |-> FALSE, email |-> FALSE]}

\* The value under "skills": absent, None, {}, a dict with a non-empty list under
\* a recognized category, a dict without one, or a non-empty list.
SkillsValues == {"absent", "none", "empty_dict", "dict_content", "dict_no_content", "list"}

\* An entry of "experience" (of "education"): not a dict, or a dict with both, the
\* first only, the second only or neither of company and position (institution
\* and degree).
EntryKinds == {"non_dict", "both", "first_only", "second_only", "neither"}

\* The value under "experience" or "education": absent, None, a non-empty string,
\* or a list of entries.
ExperienceValues ==
    {[ty |-> t, items |-> <<>>] : t \in {"absent", "none", "str", "list"}}
        \cup {[ty |-> "list", items |-> <<a>>] : a \in EntryKinds}
        \cup {[ty |-> "list", items |-> <<a, b>>] : a, b \in EntryKinds}
        \cup {[ty |-> "list", items |-> <<"neither", "neither", "neither">>],
              [ty |-> "list", items |-> <<"non_dict", "second_only", "first_only">>]}

EducationValues ==
    {[ty |-> t, items |-> <<>>] : t \in {"absent", "none", "str", "list"}}
        \cup {[ty |-> "list", items |-> <<a>>] : a \in EntryKinds}

\* data.get("extraction_confidence"): absent (<<>>) or the value an adapter or the
\* heuristic extractor wrote, in hundredths
ConfidenceValues == {<<>>, <<75>>, <<85>>, <<90>>, <<95>>}

\* the dicts given to validate_data
ValidationInputs ==
    [error : BOOLEAN, personal_info : PersonalInfos, skills : SkillsValues,
     experience : ExperienceValues, education : EducationValues,
     extraction_confidence : ConfidenceValues]

\* `field not in data or not data[field]` for the four required fields
Missing(data, field) ==
    CASE field = "personal_info" -> ~data.personal_info.truthy
      [] field = "skills"        -> data.skills \in {"absent", "none", "empty_dict"}
      [] field = "experience"    -> data.experience.ty \in {"absent", "none"}
                                        \/ (data.experience.ty = "list"
                                                /\ data.experience.items = <<>>)
      [] field = "education"     -> data.education.ty \in {"absent", "none"}
                                        \/ (data.education.ty = "list"
                                                /\ data.education.items = <<>>)

\* lines 569-577 without the check of the email
personal_info_errors_name_only(p) ==
    IF p.ty \in {"dict", "str"} /\ p.truthy
    THEN (IF ~p.name THEN <<"Missing name in personal_info">> ELSE <<>>)
    ELSE <<"personal_info section is empty or missing">>

\* lines 569-577
personal_info_errors(p) ==
    IF p.ty \in {"dict", "str"} /\ p.truthy
    THEN (IF ~p.name THEN <<"Missing name in personal_info">> ELSE <<>>)
            \o (IF ~p.email THEN <<"Missing email in personal_info">> ELSE <<>>)
    ELSE <<"personal_info section is empty or missing">>

\* the messages about a list section and its entries
NotFormatted(section) ==
    IF section = "experience" THEN "Experience entry is not properly formatted"
    ELSE "Education entry is not properly formatted"

MissingBoth(section) ==
    IF section = "experience" THEN "Missing both company and position in experience"
    ELSE "Missing both institution and degree in education"

MissingFirst(section) ==
    IF section = "experience" THEN "Missing company in experience"
    ELSE "Missing institution in education"

MissingSecond(section) ==
    IF section = "experience" THEN "Missing position in experience"
    ELSE "Missing degree in education"

EmptyOrNotAList(section) ==
    IF section = "experience" THEN "Experience section is empty or not a list"
    ELSE "Education section is empty or not a list"

\* the errors of the entries when one missing attribute is an error as well
RECURSIVE entry_errors_strict(_, _, _)
entry_errors_strict(items, i, section) ==
    IF i > Len(items) THEN <<>>
    ELSE (CASE items[i] = "non_dict"    -> <<NotFormatted(section)>>
            [] items[i] = "neither"     -> <<MissingBoth(section)>>
            [] items[i] = "second_only" -> <<MissingFirst(section)>>
            [] items[i] = "first_only"  -> <<MissingSecond(section)>>
            [] OTHER                    -> <<>>)
         \o entry_errors_strict(items, i + 1, section)

\* the errors (the warnings) of the entries i.. of a list section
RECURSIVE entry_errors(_, _, _)
entry_errors(items, i, section) ==
    IF i > Len(items) THEN <<>>
    ELSE (CASE items[i] = "non_dict" -> <<NotFormatted(section)>>
            [] items[i] = "neither"  -> <<MissingBoth(section)>>
            [] OTHER                 -> <<>>)
         \o entry_errors(items, i + 1, section)

RECURSIVE entry_warnings(_, _, _)
entry_warnings(items, i, section) ==
    IF i > Len(items) THEN <<>>
    ELSE (CASE items[i] = "second_only" -> <<MissingFirst(section)>>
            [] items[i] = "first_only"  -> <<MissingSecond(section)>>
            [] OTHER                    -> <<>>)
         \o entry_warnings(items, i + 1, section)

\* lines 581-593 and 607-620: a section that is there is a non-empty list of entries
section_errors(v, section) ==
    IF v.ty = "absent" THEN <<>>
    ELSE IF v.ty = "list" /\ v.items # <<>> THEN entry_errors(v.items, 1, section)
    ELSE <<EmptyOrNotAList(section)>>

section_warnings(v, section) ==
    IF v.ty = "list" /\ v.items # <<>> THEN entry_warnings(v.items, 1, section) ELSE <<>>

\* lines 596-604
skills_errors(v) ==
    IF v \in {"none", "list"}
    THEN <<"Skills section is not properly formatted (should be an object)">>
    ELSE <<>>

skills_warnings(v) ==
    IF v \in {"empty_dict", "dict_no_content"}
    THEN <<"Skills section exists but appears to be empty or poorly structured">>
    ELSE <<>>

\* max() that answers with its second argument
Max_second(a, b) == b

Max(a, b) == IF a >= b THEN a ELSE b

Min(a, b) == IF a <= b THEN a ELSE b

\* validate_data raised
ReportRaised ==
    [raised |-> TRUE, keys |-> {}, is_valid |-> FALSE, missing_fields |-> {},
     errors |-> <<>>, warnings |-> <<>>, confidence_score |-> 0,
     quality_assessment |-> ""]

\* lines 556-557: the report for a dict with the error marker
ReportOfError ==
    [ReportRaised EXCEPT !.raised = FALSE, !.keys = {"is_valid", "errors"},
                         !.errors = <<"error of the result">>]

\* is_valid that asks for no warnings as well
is_valid_without_warnings(missing_fields, validation_errors, warnings) ==
    missing_fields = {} /\ validation_errors = <<>> /\ warnings = <<>>

\* line 638: is_valid = len(missing_fields) == 0 and len(validation_errors) == 0
is_valid(missing_fields, validation_errors, warnings) ==
    missing_fields = {} /\ validation_errors = <<>>

\* validate_data whose confidence is the computed score alone
validate_data_computed_only(data) ==
    LET missing_fields == {f \in REQUIRED_FIELDS : Missing(data, f)}
        validation_errors == personal_info_errors(data.personal_info)
                                \o section_errors(data.experience, "experience")
                                \o skills_errors(data.skills)
                                \o section_errors(data.education, "education")
        warnings == section_warnings(data.experience, "experience")
                        \o skills_warnings(data.skills)
                        \o section_warnings(data.education, "education")
        raw_score == 100 - Cardinality(missing_fields) * 15
                         - Len(validation_errors) * 10 - Len(warnings) * 5
        final_confidence == Max(0, Min(100, raw_score))
    IN  IF data.error THEN ReportOfError
        ELSE IF data.personal_info.ty = "str" THEN ReportRaised
        ELSE [raised |-> FALSE,
              keys |-> {"is_valid", "missing_fields", "validation_errors", "warnings",
                        "confidence_score", "quality_assessment"},
              is_valid |-> is_valid(missing_fields, validation_errors, warnings),
              missing_fields |-> missing_fields,
              errors |-> validation_errors,
              warnings |-> warnings,
              confidence_score |-> final_confidence,
              quality_assessment |-> IF final_confidence > 80 THEN "high"
                                     ELSE IF final_confidence > 60 THEN "medium"
                                     ELSE "low"]

\* ResumeProcessingService.validate_data; confidences in hundredths.  The entry
\* under "errors" (error marker) or "validation_errors" is the field errors.
validate_data(data) ==
    LET missing_fields == {f \in REQUIRED_FIELDS : Missing(data, f)}
        validation_errors == personal_info_errors(data.personal_info)
                                \o section_errors(data.experience, "experience")
                                \o skills_errors(data.skills)
                                \o section_errors(data.education, "education")
        warnings == section_warnings(data.experience, "experience")
                        \o skills_warnings(data.skills)
                        \o section_warnings(data.education, "education")
        raw_score == 100 - Cardinality(missing_fields) * 15
                         - Len(validation_errors) * 10 - Len(warnings) * 5
        confidence_score == Max(0, Min(100, raw_score))
        provided_confidence == IF data.extraction_confidence = <<>> THEN 0
                               ELSE data.extraction_confidence[1]
        final_confidence == Max(confidence_score, provided_confidence)
    IN  IF data.error THEN ReportOfError
        \* personal.get("name") on a value that is not a dict: AttributeError
        ELSE IF data.personal_info.ty = "str" THEN ReportRaised
        ELSE [raised |-> FALSE,
              keys |-> {"is_valid", "missing_fields", "validation_errors", "warnings",
                        "confidence_score", "quality_assessment"},
              is_valid |-> is_valid(missing_fields, validation_errors, warnings),
              missing_fields |-> missing_fields,
              errors |-> validation_errors,
              warnings |-> warnings,
              confidence_score |-> final_confidence,
              quality_assessment |-> IF final_confidence > 80 THEN "high"
                                     ELSE IF final_confidence > 60 THEN "medium"
                                     ELSE "low"]

\* no validation call in flight
ValidateIdle ==
    [pc |-> "idle",
     data |-> [error |-> FALSE,
               personal_info |-> [ty |-> "absent", truthy |-> FALSE, name |-> FALSE,
                                  email |-> FALSE],
               skills |-> "absent",
               experience |-> [ty |-> "absent", items |-> <<>>],
               education |-> [ty |-> "absent", items |-> <<>>],
               extraction_confidence |-> <<>>],
     report |-> ReportRaised]

\* ------------------------------------------------------------------ text normalization

\* A text is a sequence of characters.  "a" is a letter, "H" stands for a section
\* heading word (SKILLS: six letters matched by the alternation of line 68),
\* " " and "\n" are the whitespace, "-" is the hyphen.
NormalizeChars == {"a", "H", "-", " ", "\n"}

MaxTextLen == 6

\* the example of consecutive hyphenation artifacts, "a- a- a"
TEXT_HYPHENS == <<"a", "-", " ", "a", "-", " ", "a">>

NormalizeTexts ==
    UNION {[1..n -> NormalizeChars] : n \in 0..MaxTextLen} \cup {TEXT_HYPHENS}

\* \s and \w on the characters
IsSpace(c) == c \in {" ", "\n"}

IsWord(c) == c \in {"a", "H"}

\* len() of a character
Width(c) == IF c = "H" THEN 6 ELSE 1

\* the first position from i on that holds no whitespace (Len(s) + 1 if none)
RECURSIVE SkipSpace(_, _)
SkipSpace(s, i) ==
    IF i > Len(s) \/ ~IsSpace(s[i]) THEN i ELSE SkipSpace(s, i + 1)

\* line 62: re.sub(r'\s+', ' ', text), from position i on
RECURSIVE collapse_whitespace(_, _)
collapse_whitespace(s, i) ==
    IF i > Len(s) THEN <<>>
    ELSE IF IsSpace(s[i]) THEN <<" ">> \o collapse_whitespace(s, SkipSpace(s, i))
    ELSE <<s[i]>> \o collapse_whitespace(s, i + 1)

\* line 65: re.sub(r'(\w)-\s+(\w)', r'\1\2', text), from position i on; the
\* search for the next match starts after the second letter of the last one
RECURSIVE fix_broken_words(_, _)
fix_broken_words(s, i) ==
    IF i > Len(s) THEN <<>>
    ELSE IF /\ i + 3 <= Len(s)
            /\ IsWord(s[i]) /\ s[i + 1] = "-" /\ IsSpace(s[i + 2])
            /\ SkipSpace(s, i + 2) <= Len(s)
            /\ IsWord(s[SkipSpace(s, i + 2)])
    THEN <<s[i], s[SkipSpace(s, i + 2)]>> \o fix_broken_words(s, SkipSpace(s, i + 2) + 1)
    ELSE <<s[i]>> \o fix_broken_words(s, i + 1)

\* line 68: re.sub(r'\s*(PROFILE|...)\s*', r'\n\n\1\n', text), from position i on
RECURSIVE break_sections(_, _)
break_sections(s, i) ==
    IF i > Len(s) THEN <<>>
    ELSE IF SkipSpace(s, i) <= Len(s) /\ s[SkipSpace(s, i)] = "H"
    THEN <<"\n", "\n", "H", "\n">> \o break_sections(s, SkipSpace(s, SkipSpace(s, i) + 1))
    ELSE <<s[i]>> \o break_sections(s, i + 1)

\* the last position up to i that holds no whitespace (0 if none)
RECURSIVE SkipSpaceBack(_, _)
SkipSpaceBack(s, i) ==
    IF i < 1 \/ ~IsSpace(s[i]) THEN i ELSE SkipSpaceBack(s, i - 1)

\* str.strip()
strip(s) == SubSeq(s, SkipSpace(s, 1), SkipSpaceBack(s, Len(s)))

\* FileExtractionService._clean_text
clean_text(text) ==
    IF text = <<>> THEN <<>>
    ELSE strip(break_sections(fix_broken_words(collapse_whitespace(text, 1), 1), 1))

\* str.split('\n') from position i on; cur is the line being read
RECURSIVE split_lines(_, _, _)
split_lines(s, i, cur) ==
    IF i > Len(s) THEN <<cur>>
    ELSE IF s[i] = "\n" THEN <<cur>> \o split_lines(s, i + 1, <<>>)
    ELSE split_lines(s, i + 1, Append(cur, s[i]))

\* len(line)
RECURSIVE len(_)
len(line) == IF line = <<>> THEN 0 ELSE Width(Head(line)) + len(Tail(line))

\* lines 80-86: the stripped lines longer than one character, joined by "\n"
RECURSIVE join_lines(_, _)
join_lines(lines, i) ==
    IF i > Len(lines) THEN <<>>
    ELSE IF len(strip(lines[i])) > 1
    THEN (LET rest == join_lines(lines, i + 1)
          IN  IF rest = <<>> THEN strip(lines[i]) ELSE strip(lines[i]) \o <<"\n">> \o rest)
    ELSE join_lines(lines, i + 1)

\* the newlines among the positions i..j of s
Newlines(s, i, j) == {k \in i..j : s[k] = "\n"}

\* line 89: re.sub(r'\n\s*\n\s*\n+', '\n\n', result), from position i on: a run
\* of whitespace that starts with a newline and has three newlines or more is
\* replaced, up to its last newline, by two newlines
RECURSIVE fix_newlines(_, _)
fix_newlines(s, i) ==
    IF i > Len(s) THEN <<>>
    ELSE IF s[i] = "\n" /\ Cardinality(Newlines(s, i, SkipSpace(s, i) - 1)) >= 3
    THEN LET nl == Newlines(s, i, SkipSpace(s, i) - 1)
             last == CHOOSE k \in nl : \A m \in nl : m <= k
         IN  <<"\n", "\n">> \o fix_newlines(s, last + 1)
    ELSE <<s[i]>> \o fix_newlines(s, i + 1)

\* FileExtractionService._post_process_text
post_process_text(text) ==
    IF text = <<>> THEN <<>>
    ELSE strip(fix_newlines(join_lines(split_lines(text, 1, <<>>), 1), 1))

\* The normalization of the text of a one-page document: _extract_pdf cleans
\* the page's text (line 47) and post-processes the joined pages (line 53).
normalize(text) == post_process_text(clean_text(text))

\* no normalization in flight
NormalizeIdle == [pc |-> "idle", text |-> <<>>, once |-> <<>>, twice |-> <<>>]

\* ------------------------------------------------------------------ inputs

FileNames == {
    <<"r","e","s","u","m","e",".","p","d","f">>,
    <<"n","o","t","e","s",".","t","x","t">>,
    <<"c","v",".","d","o","c","x">>,
    <<"C","V",".","P","D","F">>,
    <<"p","h","o","t","o",".","j","p","g">> }

RESUME_PDF == <<"r","e","s","u","m","e",".","p","d","f">>
NOTES_TXT  == <<"n","o","t","e","s",".","t","x","t">>
PHOTO_JPG  == <<"p","h","o","t","o",".","j","p","g">>

\* file sizes in bytes: the two scenario sizes and both sides of each threshold
FileSizes == {50000, MB - 1, MB, 5 * MB, 5 * MB + 1, 6000000}

ModeValues == {"hybrid", "complete_llm", "HYBRID", "turbo"}

PriorityValues == {
    <<"groq", "openai", "anthropic">>,
    <<"openai", "anthropic", "groq">>,
    <<"groq", "openai">>,
    <<"anthropic">>,
    <<"Groq", " OpenAI">>,
    <<"openai", "mistral">> }

FlagValues == {"true", "false"}

\* the key the deployment configures for the configuration endpoints
CONFIG_API_KEY == "secret"

\* the X-API-Key header of a request: absent, empty, another key, the key
ApiKeyHeaders == {None, "", "wrong-key", CONFIG_API_KEY}

\* an environment from optional values (a sequence of at most one value each)
MakeEnviron(mode, priority, cost, fallback) ==
    LET opt(k) == CASE k = "DEFAULT_PROCESSING_MODE" -> mode
                    [] k = "PROVIDER_PRIORITY" -> priority
                    [] k = "ENABLE_COST_OPTIMIZATION" -> cost
                    [] k = "ENABLE_AUTO_FALLBACK" -> fallback
        keys == {k \in {"DEFAULT_PROCESSING_MODE", "PROVIDER_PRIORITY",
                        "ENABLE_COST_OPTIMIZATION", "ENABLE_AUTO_FALLBACK"} : Len(opt(k)) = 1}
    IN  [k \in keys |-> opt(k)[1]]

Optional(S) == {<<>>} \cup {<<v>> : v \in S}

\* the process environment at start-up (after load_dotenv in main.py)
InitialEnvirons ==
    {setenv(MakeEnviron(m, p, c, <<>>), "CONFIG_API_KEY", CONFIG_API_KEY) :
        m \in Optional(ModeValues \ {"hybrid"}),
        p \in Optional(PriorityValues \ {<<"groq", "openai">>}),
        c \in Optional(FlagValues)}

Services ==
    {s \in [openai_api_key : BOOLEAN, groq_api_key : BOOLEAN, groq_client : BOOLEAN] :
        s.groq_client => s.groq_api_key}

\* no configuration request; a request is "queued" from its arrival until the event
\* loop runs its handler, and "answered" once the handler has built its response
AdminIdle == [op |-> "none", phase |-> "none", status |-> 0, x_api_key |-> None]

Init ==
    /\ environ \in InitialEnvirons
    /\ service \in Services
    /\ sel = SelectIdle
    /\ envSeen = {}
    /\ adm = AdminIdle
    /\ ex = ExtractIdle
    /\ up = UploadIdle
    /\ val = ValidateIdle
    /\ norm = NormalizeIdle

\* ------------------------------------------------------------------ event loop

\* the event loop can start another handler
LoopFree ==
    /\ sel.pc = "idle" \/ sel.pc \in SelectAwaitPoints
    /\ adm.phase # "answered"

\* the configuration states a call in flight has lived through
Seen(e) == IF sel.pc = "idle" THEN envSeen ELSE envSeen \cup {e}

\* ------------------------------------------------------------------ select, step by step

SelectCall(file_name, file_size_bytes) ==
    /\ LoopFree
    /\ sel.pc = "idle"
    /\ sel' = select_line41(environ, file_name, file_size_bytes)
    /\ envSeen' = {environ}
    /\ UNCHANGED <<norm, val, environ, service, adm, ex, up>>

SelectMode ==
    /\ sel.pc = "line45"
    /\ sel' = select_line45(sel, environ)
    /\ UNCHANGED <<norm, val, environ, service, envSeen, adm, ex, up>>

SelectProvider ==
    /\ sel.pc = "line69"
    /\ sel' = select_line69(sel, service)
    /\ UNCHANGED <<norm, val, environ, service, envSeen, adm, ex, up>>

SelectCost ==
    /\ sel.pc = "line77"
    /\ sel' = select_line77(sel, environ)
    /\ UNCHANGED <<norm, val, environ, service, envSeen, adm, ex, up>>

\* the caller has its decision (or the exception): the call is over
SelectEnd ==
    /\ sel.pc \in {"returned", "raised"}
    /\ sel' = SelectIdle
    /\ envSeen' = {}
    /\ UNCHANGED <<norm, val, environ, service, adm, ex, up>>

\* ------------------------------------------------------------------ runtime configuration

\* a request for /admin/update_config or /admin/apply_preset reaches the server; its
\* handler starts when the event loop is free
AdminArrive(op) ==
    /\ adm.phase = "none"
    /\ adm' = [op |-> op, phase |-> "queued", status |-> 0, x_api_key |-> None]
    /\ UNCHANGED <<norm, val, environ, service, sel, envSeen, ex, up>>

PRESETS == [
    speed    |-> MakeEnviron(<<"hybrid">>, <<DEFAULT_PROVIDER_PRIORITY>>, <<"true">>, <<"true">>),
    accuracy |-> MakeEnviron(<<"complete_llm">>, << <<"openai", "anthropic", "groq">> >>,
                             <<"false">>, <<"true">>),
    cost     |-> MakeEnviron(<<"hybrid">>, <<DEFAULT_PROVIDER_PRIORITY>>, <<"true">>, <<"true">>),
    dev      |-> MakeEnviron(<<"hybrid">>, << <<"groq", "openai">> >>, <<"true">>, <<"true">>),
    prod     |-> MakeEnviron(<<"complete_llm">>, << <<"openai", "anthropic", "groq">> >>,
                             <<"false">>, <<"true">>) ]

\* os.environ[key] = value for every key of d
setenv_all(e, d) == [k \in DOMAIN e \cup DOMAIN d |-> IF k \in DOMAIN d THEN d[k] ELSE e[k]]

\* verify_api_key: 200 stands for `return True`, the other values are the status
\* of the HTTPException raised
verify_api_key(x_api_key, expected_key) ==
    IF x_api_key \in {None, ""} THEN 401
    ELSE IF expected_key \in {None, ""} THEN 500
    ELSE IF x_api_key # expected_key THEN 403
    ELSE 200

\* apply_configuration_preset: the handler has no dependency on verify_api_key
\* and does not read the X-API-Key header the request came with; every key of
\* the preset is set, status 200
ApplyPreset(preset, x_api_key) ==
    /\ LoopFree
    /\ adm.phase = "queued" /\ adm.op = "apply_preset"
    /\ environ' = setenv_all(environ, PRESETS[preset])
    /\ adm' = [adm EXCEPT !.phase = "answered", !.status = 200, !.x_api_key = x_api_key]
    /\ envSeen' = Seen(environ')
    /\ UNCHANGED <<norm, val, service, sel, ex, up>>

VALID_PROVIDERS == {"groq", "openai", "anthropic", "auto"}

\* str(bool).lower()
BoolStr(b) == IF b THEN "true" ELSE "false"

\* the body of a ConfigUpdateRequest: every field optional
ConfigUpdateRequests ==
    [processing_mode   : Optional({"hybrid", "complete_llm"}),
     provider_priority : Optional(PriorityValues),
     cost_optimization : Optional(BOOLEAN),
     auto_fallback     : Optional(BOOLEAN)]

\* update_runtime_config: the fields are applied in order; an HTTPException raised
\* on the way is caught by the handler's except and answered as a 500, and what
\* was written to os.environ before it stays written
update_runtime_config(e, config) ==
    LET e1 == IF config.processing_mode # <<>>
              THEN setenv(e, "DEFAULT_PROCESSING_MODE", config.processing_mode[1])
              ELSE e
        pieces == IF config.provider_priority # <<>> THEN config.provider_priority[1] ELSE <<>>
        invalid == \E i \in 1..Len(pieces) : Lower(Strip(pieces[i])) \notin VALID_PROVIDERS
        e2 == IF pieces # <<>>
              THEN setenv(e1, "PROVIDER_PRIORITY", [i \in 1..Len(pieces) |-> Lower(pieces[i])])
              ELSE e1
        e3 == IF config.cost_optimization # <<>>
              THEN setenv(e2, "ENABLE_COST_OPTIMIZATION", BoolStr(config.cost_optimization[1]))
              ELSE e2
        e4 == IF config.auto_fallback # <<>>
              THEN setenv(e3, "ENABLE_AUTO_FALLBACK", BoolStr(config.auto_fallback[1]))
              ELSE e3
        changes_made == \/ config.processing_mode # <<>>
                        \/ pieces # <<>>
                        \/ config.cost_optimization # <<>>
                        \/ config.auto_fallback # <<>>
    IN  IF invalid THEN [environ |-> e1, status |-> 500]
        ELSE IF ~changes_made THEN [environ |-> e4, status |-> 500]
        ELSE [environ |-> e4, status |-> 200]

\* POST /admin/update_config: the dependency verify_api_key runs first; when it
\* raises, the request is answered with its status and the handler does not run
UpdateConfigRejected(x_api_key) ==
    /\ LoopFree
    /\ adm.phase = "queued" /\ adm.op = "update_config"
    /\ verify_api_key(x_api_key, getenv(environ, "CONFIG_API_KEY", None)) # 200
    /\ adm' = [adm EXCEPT !.phase = "answered",
                          !.status = verify_api_key(x_api_key,
                                                    getenv(environ, "CONFIG_API_KEY", None)),
                          !.x_api_key = x_api_key]
    /\ UNCHANGED <<norm, val, environ, service, sel, envSeen, ex, up>>

\* POST /admin/update_config: verify_api_key returned and the handler runs
UpdateConfig(config, x_api_key) ==
    /\ LoopFree
    /\ adm.phase = "queued" /\ adm.op = "update_config"
    /\ verify_api_key(x_api_key, getenv(environ, "CONFIG_API_KEY", None)) = 200
    /\ environ' = update_runtime_config(environ, config).environ
    /\ adm' = [adm EXCEPT !.phase = "answered",
                          !.status = update_runtime_config(environ, config).status,
                          !.x_api_key = x_api_key]
    /\ envSeen' = Seen(environ')
    /\ UNCHANGED <<norm, val, service, sel, ex, up>>

\* the event loop runs the handler of the queued request, with the request's
\* header and body
ApplyPresetRequest ==
    /\ adm.phase = "queued" /\ adm.op = "apply_preset"
    /\ \E p \in DOMAIN PRESETS, k \in ApiKeyHeaders : ApplyPreset(p, k)

UpdateConfigRequest ==
    /\ adm.phase = "queued" /\ adm.op = "update_config"
    /\ \E k \in ApiKeyHeaders, c \in ConfigUpdateRequests : UpdateConfig(c, k)

\* the value of the session-id header: absent (the handler takes "default") or s1
SessionIds == {"default", "s1"}

\* f"SESSION_{session_id}_FORCED_PROVIDER"
session_key(session_id) ==
    IF session_id = "default" THEN "SESSION_default_FORCED_PROVIDER"
    ELSE "SESSION_s1_FORCED_PROVIDER"

\* os.environ.pop(key, None) for every key of keys
unsetenv_all(e, keys) == [k \in DOMAIN e \ keys |-> e[k]]

\* force_provider_for_session: no dependency on verify_api_key; the provider of
\* the path (one of the three the route accepts) is written under the session's key
ForceProvider(provider, session_id, x_api_key) ==
    /\ LoopFree
    /\ adm.phase = "queued" /\ adm.op = "force_provider"
    /\ environ' = setenv(environ, session_key(session_id), provider)
    /\ adm' = [adm EXCEPT !.phase = "answered", !.status = 200, !.x_api_key = x_api_key]
    /\ envSeen' = Seen(environ')
    /\ UNCHANGED <<norm, val, service, sel, ex, up>>

ForceProviderRequest ==
    /\ adm.phase = "queued" /\ adm.op = "force_provider"
    /\ \E p \in {"groq", "openai", "anthropic"}, i \in SessionIds, k \in ApiKeyHeaders :
            ForceProvider(p, i, k)

\* clear_session_overrides: no dependency on verify_api_key; every key of
\* os.environ that starts with the session's prefix is removed
ClearSessionOverrides(session_id, x_api_key) ==
    /\ LoopFree
    /\ adm.phase = "queued" /\ adm.op = "clear_session_overrides"
    /\ environ' = unsetenv_all(environ, {session_key(session_id)})
    /\ adm' = [adm EXCEPT !.phase = "answered", !.status = 200, !.x_api_key = x_api_key]
    /\ envSeen' = Seen(environ')
    /\ UNCHANGED <<norm, val, service, sel, ex, up>>

ClearSessionOverridesRequest ==
    /\ adm.phase = "queued" /\ adm.op = "clear_session_overrides"
    /\ \E i \in SessionIds, k \in ApiKeyHeaders : ClearSessionOverrides(i, k)

\* the response is sent: the handler is over
AdminEnd ==
    /\ adm.phase = "answered"
    /\ adm' = AdminIdle
    /\ UNCHANGED <<norm, val, environ, service, sel, envSeen, ex, up>>

Next ==
    \/ \E n \in FileNames, b \in FileSizes : SelectCall(n, b)
    \/ SelectMode
    \/ SelectProvider
    \/ SelectCost
    \/ SelectEnd
    \/ \E op \in {"update_config", "apply_preset"} : AdminArrive(op)
    \/ ApplyPresetRequest
    \/ \E k \in ApiKeyHeaders : UpdateConfigRejected(k)
    \/ UpdateConfigRequest
    \/ AdminEnd

Spec == Init /\ [][Next]_vars

\* ------------------------------------------------------------------ the configuration endpoints

\* the configurations of the runs of the configuration endpoints, with and
\* without CONFIG_API_KEY
AdminEnvirons ==
    LET base == {MakeEnviron(m, <<>>, c, <<>>) :
                    m \in Optional({"complete_llm"}), c \in Optional({"false"})}
    IN  base \cup {setenv(e, "CONFIG_API_KEY", CONFIG_API_KEY) : e \in base}

ADMIN_OPERATIONS == {"update_config", "apply_preset", "force_provider",
                     "clear_session_overrides"}

InitAdmin ==
    /\ environ \in AdminEnvirons
    /\ service \in {s \in Services : s.openai_api_key /\ s.groq_client}
    /\ sel = SelectIdle
    /\ envSeen = {}
    /\ adm = AdminIdle
    /\ ex = ExtractIdle
    /\ up = UploadIdle
    /\ val = ValidateIdle
    /\ norm = NormalizeIdle

NextAdmin ==
    \/ \E op \in ADMIN_OPERATIONS : AdminArrive(op)
    \/ ApplyPresetRequest
    \/ \E k \in ApiKeyHeaders : UpdateConfigRejected(k)
    \/ UpdateConfigRequest
    \/ ForceProviderRequest
    \/ ClearSessionOverridesRequest
    \/ AdminEnd

SpecAdmin == InitAdmin /\ [][NextAdmin]_vars

\* ------------------------------------------------------------------ extraction, as a service call

InitExtract ==
    /\ environ = MakeEnviron(<<>>, <<>>, <<>>, <<>>)
    /\ service \in Services
    /\ sel = SelectIdle
    /\ envSeen = {}
    /\ adm = AdminIdle
    /\ ex = ExtractIdle
    /\ up = UploadIdle
    /\ val = ValidateIdle
    /\ norm = NormalizeIdle

\* one call of extract_structured_data, from its arguments to its return or exception
ExtractCall(file_bytes, text, provider, upstream) ==
    /\ ex.pc = "idle"
    /\ LET r == extract_structured_data(service, file_bytes, text, provider, upstream)
       IN  ex' = [pc |-> "done", file_bytes |-> file_bytes, text |-> text,
                  provider |-> provider, upstream |-> upstream,
                  raised |-> r.raised, result |-> r.result, calls |-> r.calls]
    /\ UNCHANGED <<norm, val, environ, service, sel, envSeen, adm, up>>

\* the caller has the result (or the exception)
ExtractEnd ==
    /\ ex.pc = "done"
    /\ ex' = ExtractIdle
    /\ UNCHANGED <<norm, val, environ, service, sel, envSeen, adm, up>>

\* a caller calls the service with some arguments; the providers answer somehow
ExtractRequest ==
    /\ ex.pc = "idle"
    /\ \E b \in BytesValues, t \in Texts, p \in ProviderArguments, u \in Upstreams :
            ExtractCall(b, t, p, u)

NextExtract ==
    \/ ExtractRequest
    \/ ExtractEnd

SpecExtract == InitExtract /\ [][NextExtract]_vars

\* ------------------------------------------------------------------ upload, as a request

\* FileExtractionService.extract_text on the uploaded bytes: it raises, or it
\* returns a string
LibraryOutcomes ==
    {[raised |-> TRUE, text |-> TextNone]}
        \cup {[raised |-> FALSE, text |-> t] : t \in Texts \ {TextNone}}

\* len(contents) of the uploads
UploadSizes == {0, 50000, 6000000, 10 * MB + 1}

\* the model answers of the upload runs
UploadUpstreams ==
    [openai_file : {o \in UpstreamOutcomes :
                        \/ o.kind = "api_error"
                        \/ o.payload \in {PAYLOAD_FULL, PAYLOAD_NO_EMAIL}},
     openai_text : {o \in UpstreamOutcomes :
                        \/ o.kind \in {"api_error", "unparsable"}
                        \/ o.payload = PAYLOAD_FULL},
     groq_text   : {o \in UpstreamOutcomes :
                        \/ o.kind \in {"api_error", "unparsable"}
                        \/ o.payload \in {PAYLOAD_FULL, PAYLOAD_NO_EMAIL, PAYLOAD_SPARSE}}]

\* the configurations of the upload runs
UploadEnvirons ==
    {MakeEnviron(m, <<>>, c, <<>>) :
        m \in Optional({"complete_llm"}), c \in Optional({"false"})}

InitUpload ==
    /\ environ \in UploadEnvirons
    /\ service \in Services
    /\ sel = SelectIdle
    /\ envSeen = {}
    /\ adm = AdminIdle
    /\ ex = ExtractIdle
    /\ up = UploadIdle
    /\ val = ValidateIdle
    /\ norm = NormalizeIdle

\* lines 266-277: the request arrives; the file name is checked and the handler
\* awaits the upload's bytes
UploadCall(file_name, size, library, upstream) ==
    /\ up.pc = "idle"
    /\ LET u == [UploadIdle EXCEPT !.file_name = file_name, !.size = size,
                                       !.library = library, !.upstream = upstream]
       IN  up' = IF EndsWith(LowerName(file_name), EXT_PDF)
                        \/ EndsWith(LowerName(file_name), EXT_DOCX)
                 THEN [u EXCEPT !.pc = "read"]
                 ELSE Answer(u, "type", 415)
    /\ UNCHANGED <<norm, val, environ, service, sel, envSeen, adm, ex>>

\* lines 278-305: the bytes are there; size check and selection
UploadSelect ==
    /\ up.pc = "read"
    /\ LET d == select_processing_strategy(environ, service, up.file_name, up.size)
       IN  up' = upload_select(up, d)
    /\ UNCHANGED <<norm, val, environ, service, sel, envSeen, adm, ex>>

\* lines 308-334
UploadText ==
    /\ up.pc = "text"
    /\ up' = upload_text(up)
    /\ UNCHANGED <<norm, val, environ, service, sel, envSeen, adm, ex>>

\* lines 346-396
UploadExtract ==
    /\ up.pc = "extract"
    /\ up' = upload_extract(service, up)
    /\ UNCHANGED <<norm, val, environ, service, sel, envSeen, adm, ex>>

\* lines 404-428
UploadValidate ==
    /\ up.pc = "validate"
    /\ up' = upload_validate(up)
    /\ UNCHANGED <<norm, val, environ, service, sel, envSeen, adm, ex>>

\* lines 431 to the end: user, session and resume documents are written; a
\* database error ends the request with a 500
UploadStore(stored) ==
    /\ up.pc = "storing"
    /\ up' = [up EXCEPT !.pc = "answered", !.status = IF stored THEN 200 ELSE 500]
    /\ UNCHANGED <<norm, val, environ, service, sel, envSeen, adm, ex>>

\* the response is sent
UploadEnd ==
    /\ up.pc = "answered"
    /\ up' = UploadIdle
    /\ UNCHANGED <<norm, val, environ, service, sel, envSeen, adm, ex>>

\* a client posts a file; the library and the providers answer somehow (the
\* library finds no text in an upload without bytes)
UploadRequest ==
    /\ up.pc = "idle"
    /\ \E n \in FileNames, b \in UploadSizes, l \in LibraryOutcomes, u \in UploadUpstreams :
            /\ b = 0 => l.raised
            /\ UploadCall(n, b, l, u)

NextUpload ==
    \/ UploadRequest
    \/ UploadSelect
    \/ UploadText
    \/ UploadExtract
    \/ UploadValidate
    \/ UploadStore(TRUE)
    \/ UploadStore(FALSE)
    \/ UploadEnd

SpecUpload == InitUpload /\ [][NextUpload]_vars

\* ------------------------------------------------------------------ validation, as a service call

InitValidate ==
    /\ environ = MakeEnviron(<<>>, <<>>, <<>>, <<>>)
    /\ service \in {s \in Services : s.openai_api_key /\ s.groq_client}
    /\ sel = SelectIdle
    /\ envSeen = {}
    /\ adm = AdminIdle
    /\ ex = ExtractIdle
    /\ up = UploadIdle
    /\ val = ValidateIdle
    /\ norm = NormalizeIdle

\* one call of validate_data, from its argument to its report or exception
ValidateCall(data) ==
    /\ val.pc = "idle"
    /\ val' = [pc |-> "done", data |-> data, report |-> validate_data(data)]
    /\ UNCHANGED <<norm, environ, service, sel, envSeen, adm, ex, up>>

\* a caller has a dict validated
ValidateRequest ==
    /\ val.pc = "idle"
    /\ \E data \in ValidationInputs : ValidateCall(data)

\* the caller has the report (or the exception)
ValidateEnd ==
    /\ val.pc = "done"
    /\ val' = ValidateIdle
    /\ UNCHANGED <<norm, environ, service, sel, envSeen, adm, ex, up>>

NextValidate ==
    \/ ValidateRequest
    \/ ValidateEnd

SpecValidate == InitValidate /\ [][NextValidate]_vars

\* ------------------------------------------------------------------ normalization, as a service call

InitNormalize ==
    /\ environ = MakeEnviron(<<>>, <<>>, <<>>, <<>>)
    /\ service \in {s \in Services : s.openai_api_key /\ s.groq_client}
    /\ sel = SelectIdle
    /\ envSeen = {}
    /\ adm = AdminIdle
    /\ ex = ExtractIdle
    /\ up = UploadIdle
    /\ val = ValidateIdle
    /\ norm = NormalizeIdle

\* the text of a page is normalized
NormalizeCall(text) ==
    /\ norm.pc = "idle"
    /\ norm' = [pc |-> "once", text |-> text, once |-> normalize(text), twice |-> <<>>]
    /\ UNCHANGED <<environ, service, sel, envSeen, adm, ex, up, val>>

NormalizeRequest ==
    /\ norm.pc = "idle"
    /\ \E text \in NormalizeTexts : NormalizeCall(text)

\* the normalized text is normalized again
NormalizeAgain ==
    /\ norm.pc = "once"
    /\ norm' = [norm EXCEPT !.pc = "twice", !.twice = normalize(norm.once)]
    /\ UNCHANGED <<environ, service, sel, envSeen, adm, ex, up, val>>

NormalizeEnd ==
    /\ norm.pc = "twice"
    /\ norm' = NormalizeIdle
    /\ UNCHANGED <<environ, service, sel, envSeen, adm, ex, up, val>>

NextNormalize ==
    \/ NormalizeRequest
    \/ NormalizeAgain
    \/ NormalizeEnd

SpecNormalize == InitNormalize /\ [][NextNormalize]_vars

\* ------------------------------------------------------------------ properties of selection

SelectDecided == sel.pc \in {"line69", "line77", "returned", "raised"}

\* the rules whose checked conditions hold for the file of the call in flight
RulesMatching ==
    {i \in 1..Len(PROCESSING_RULES) :
        matches_conditions(PROCESSING_RULES[i].conditions,
                           SplitExt(LowerName(sel.file_name)), sel.file_size_bytes)}

InReasoning(text) == \E i \in 1..Len(sel.reasoning) : sel.reasoning[i] = text

CostTier(p) == ProviderConfig(p).cost_tier

FreeAvailable ==
    {i \in 1..Len(PROVIDER_CONFIGS) :
        /\ PROVIDER_CONFIGS[i].cost_tier = "free"
        /\ IsAvailable(sel.available_providers, PROVIDER_CONFIGS[i].provider)}

\* C4: evaluate returns the first rule, in the declaration order large_files,
\* pdf_files, docx_files, small_text_files, complex_resumes, whose conditions hold;
\* resume.pdf of 6,000,000 bytes without an override gives COMPLETE with the
\* large-file rule's reasoning.
C4_FirstDeclaredRuleWins ==
    (sel.rules_evaluated /\ SelectDecided) =>
        /\ [i \in 1..Len(PROCESSING_RULES) |-> PROCESSING_RULES[i].name]
               = <<"large_files", "pdf_files", "docx_files", "small_text_files",
                   "complex_resumes">>
        /\ RulesMatching # {} =>
               /\ sel.rule \in RulesMatching
               /\ \A j \in RulesMatching : sel.rule <= j
        /\ (sel.file_name = RESUME_PDF /\ sel.file_size_bytes = 6000000) =>
               /\ sel.selected_mode = "complete_llm"
               /\ PROCESSING_RULES[sel.rule].name = "large_files"
               /\ sel.reasoning[1] = "Rule-based: "
               /\ sel.reasoning[2] = "Large files (>5MB) benefit from direct LLM processing"

C4_Witness ==
    /\ sel.pc = "returned"
    /\ sel.rules_evaluated
    /\ sel.file_name = RESUME_PDF /\ sel.file_size_bytes = 6000000
    /\ {1, 2} \subseteq RulesMatching
    /\ sel.rule = 1

\* the whole condition set of a rule as declared: extension, size and complexity tag
FullConditionsHold(rule, file_name, file_size_bytes) ==
    /\ matches_conditions(rule.conditions, SplitExt(LowerName(file_name)), file_size_bytes)
    /\ ("complexity" \in DOMAIN rule.conditions =>
            estimate_file_complexity(file_name, file_size_bytes) = rule.conditions.complexity)

\* C5: when no rule's full condition set holds for the file, evaluate returns none
\* and select adopts the resolved default mode and provider priority, the reasoning
\* naming the default.
C5_NoRuleMeansDefaults ==
    (/\ sel.rules_evaluated /\ SelectDecided
     /\ \A i \in 1..Len(PROCESSING_RULES) :
            ~FullConditionsHold(PROCESSING_RULES[i], sel.file_name, sel.file_size_bytes))
    =>  /\ sel.rule = 0
        /\ sel.selected_mode = get_default_processing_mode(environ)
        /\ sel.preferred_providers = get_provider_priority(environ)
        /\ sel.reasoning[1] = "Default configuration applied"

\* C6: with DEFAULT_PROCESSING_MODE configured the rules are not evaluated, for any
\* file: the mode is the configured one, the provider order is the resolved
\* priority and the reasoning says the rules were bypassed.
C6_ExplicitModeBypassesRules ==
    (SelectDecided /\ "DEFAULT_PROCESSING_MODE" \in DOMAIN environ) =>
        /\ ~sel.rules_evaluated /\ sel.rule = 0
        /\ environ.DEFAULT_PROCESSING_MODE \in {"hybrid", "HYBRID"}
               => sel.selected_mode = "hybrid"
        /\ environ.DEFAULT_PROCESSING_MODE = "complete_llm"
               => sel.selected_mode = "complete_llm"
        /\ sel.preferred_providers = get_provider_priority(environ)
        /\ sel.reasoning[1] = "Explicit configuration: "
        /\ sel.reasoning[2] = sel.selected_mode
        /\ sel.reasoning[3] = " mode (rules bypassed)"

C6_Witness ==
    /\ sel.pc = "returned"
    /\ sel.file_name = NOTES_TXT /\ sel.file_size_bytes = 50000
    /\ "DEFAULT_PROCESSING_MODE" \in DOMAIN environ
    /\ environ.DEFAULT_PROCESSING_MODE = "hybrid"
    /\ sel.selected_mode = "hybrid"
    /\ 4 \in RulesMatching

\* C7: a returned decision names a provider the availability map of that call marks
\* available, and with no provider available the call fails.
C7_DecisionProviderAvailable ==
    /\ sel.pc = "returned" =>
           /\ sel.available_providers = get_available_providers(service)
           /\ IsAvailable(sel.available_providers, sel.selected_provider)
    /\ (sel.pc \in {"line77", "returned", "raised"}
        /\ \A k \in DOMAIN get_available_providers(service) :
               ~get_available_providers(service)[k])
           => sel.pc = "raised"

\* the any-available fallback: nothing of the preferred list is available
C7_Witness ==
    /\ sel.pc = "returned"
    /\ \A i \in 1..Len(sel.preferred_providers) :
           ~IsAvailable(sel.available_providers, sel.preferred_providers[i])
    /\ sel.selected_provider = "groq"

\* C8: with cost optimization enabled a premium pick is replaced by an available
\* free-tier provider and the reasoning records the switch; a free-tier pick is kept
\* and no switch is recorded; with cost optimization disabled the pick is kept.
C8_CostOptimizationSwitch ==
    sel.pc = "returned" =>
        /\ (is_cost_optimization_enabled(environ)
            /\ CostTier(sel.picked_provider) = "premium" /\ FreeAvailable # {})
               => /\ CostTier(sel.selected_provider) = "free"
                  /\ IsAvailable(sel.available_providers, sel.selected_provider)
                  /\ InReasoning("Cost optimization: switched to ")
        /\ (is_cost_optimization_enabled(environ) /\ CostTier(sel.picked_provider) = "free")
               => /\ sel.selected_provider = sel.picked_provider
                  /\ ~InReasoning("Cost optimization: switched to ")
        /\ ~is_cost_optimization_enabled(environ)
               => /\ sel.selected_provider = sel.picked_provider
                  /\ ~InReasoning("Cost optimization: switched to ")

C8_Witness ==
    /\ sel.pc = "returned"
    /\ is_cost_optimization_enabled(environ)
    /\ sel.preferred_providers = <<"openai", "anthropic", "groq">>
    /\ sel.picked_provider = "openai"
    /\ sel.selected_provider = "groq"
    /\ InReasoning("Cost optimization: switched to ")

\* C9: in COMPLETE mode a cost-optimization switch never replaces a provider that
\* supports file upload by one that does not.
C9_SwitchKeepsFileUpload ==
    (/\ sel.pc = "returned"
     /\ sel.selected_mode = "complete_llm"
     /\ sel.selected_provider # sel.picked_provider
     /\ file_upload_support[sel.picked_provider])
    => file_upload_support[sel.selected_provider]

\* the configuration values the call in flight has read so far all come from the
\* configuration c
DecisionReadFrom(c) ==
    /\ sel.explicit_config_mode = get_default_processing_mode(c)
    /\ SelectDecided =>
           /\ sel.has_explicit_config = ("DEFAULT_PROCESSING_MODE" \in DOMAIN c)
           /\ sel.priority_read => sel.preferred_providers = get_provider_priority(c)
    /\ sel.cost_read => sel.cost_enabled = is_cost_optimization_enabled(c)

\* C10: the override presence, mode, provider priority and cost flag one select
\* call uses all come from one configuration state that existed during the call,
\* at every position of the call and so in the decision it returns.
C10_SingleConfigurationSnapshot ==
    sel.pc # "idle" => \E c \in envSeen : DecisionReadFrom(c)

\* a configuration request arrived while the call was between two of its reads
C10_Witness ==
    /\ sel.pc = "line77"
    /\ sel.priority_read
    /\ adm.phase = "queued"
    /\ adm.op = "apply_preset"

\* ------------------------------------------------------------------ properties of extraction

\* extract_structured_data was called without a provider, or with "auto"
AutoCallDone == ex.pc = "done" /\ ~ProviderForced(ex.provider)

\* the adapter was called during the call
Called(adapter) == \E i \in 1..Len(ex.calls) : ex.calls[i] = adapter

\* the outcome is a failure: an exception, None, or a dict with the error marker
Failed(r) == r.raised \/ r.result.kind = "none" \/ "error" \in r.result.keys

\* C1: in auto mode, when the file-based extraction of a provider (OpenAI, the
\* one provider with a file path) fails and its text-based extraction would
\* succeed on the supplied text, extract returns the result of that text path
\* and the next provider (Groq) is not called.
C1_FallbackMonotonicity ==
    (/\ AutoCallDone
     /\ Called("openai_file")
     /\ Failed(extract_with_openai_file(service, ex.upstream.openai_file))
     /\ Truthy(ex.text)
     /\ ~Failed(extract_with_openai_text(service, ex.upstream.openai_text)))
    => /\ ~ex.raised
       /\ ex.result = Stamp(extract_with_openai_text(service, ex.upstream.openai_text).result,
                            "openai", ex.file_bytes)
       /\ ~Called("groq_text")

\* every provider of the order fails on the call's arguments
AllProvidersFail ==
    \A i \in 1..Len(provider_fallback) :
        Failed(extract_with_provider(service, ex.file_bytes, ex.text,
                                     provider_fallback[i], ex.upstream))

\* C2: when every provider of the order fails (error marker or exception) and
\* non-empty text was supplied, extract does not raise: it returns the heuristic
\* extractor's record, which has every required section as a key, no error
\* marker, and the fixed confidence 0.75.
C2_HeuristicWhenAllFail ==
    (AutoCallDone /\ AllProvidersFail /\ Truthy(ex.text))
    => /\ ~ex.raised
       /\ ex.result.kind = "dict"
       /\ ex.result.used_provider = "fallback_parser"
       /\ REQUIRED_FIELDS \subseteq ex.result.keys
       /\ "error" \notin ex.result.keys
       /\ ex.result.extraction_confidence = 75
       /\ ex.calls[Len(ex.calls)] = "fallback_parser"

\* one provider failed with an exception, the other with an error marker, and
\* the heuristic extractor answered on a text without any of its patterns
C2_Witness ==
    /\ AutoCallDone
    /\ ex.text = TEXT_PLAIN
    /\ ex.calls = <<"openai_text", "groq_text", "fallback_parser">>
    /\ extract_with_openai_text(service, ex.upstream.openai_text).raised
    /\ "error" \in extract_with_groq_text(service, ex.upstream.groq_text).result.keys
    /\ ~ex.raised
    /\ ex.result.used_provider = "fallback_parser"
    /\ ex.result.truthy \cap REQUIRED_FIELDS = {"skills"}

\* ------------------------------------------------------------------ properties of extraction, continued

\* extract_structured_data was called with a specific provider
ForcedCallDone == ex.pc = "done" /\ ProviderForced(ex.provider)

\* the adapters of a provider
AdaptersOf(provider) ==
    CASE provider = "openai" -> {"openai_file", "openai_text"}
      [] provider = "groq"   -> {"groq_text"}
      [] OTHER               -> {}

\* what an adapter does on the call's upstream answers
AdapterOutcome(adapter) ==
    CASE adapter = "openai_file" -> extract_with_openai_file(service, ex.upstream.openai_file)
      [] adapter = "openai_text" -> extract_with_openai_text(service, ex.upstream.openai_text)
      [] adapter = "groq_text"   -> extract_with_groq_text(service, ex.upstream.groq_text)

\* C11: with a specific (non-auto) provider forced, extract calls only that
\* provider's adapter, neither another provider nor the heuristic extractor,
\* and what the adapter called last returned or raised is what the caller gets.
C11_ForcedProviderOnly ==
    ForcedCallDone
    => /\ \A i \in 1..Len(ex.calls) : ex.calls[i] \in AdaptersOf(ex.provider)
       /\ Len(ex.calls) <= 1
       /\ ex.calls # <<>> =>
            /\ ex.raised = AdapterOutcome(ex.calls[Len(ex.calls)]).raised
            /\ ex.result = AdapterOutcome(ex.calls[Len(ex.calls)]).result
       /\ ex.calls = <<>> => ex.raised

\* Groq is forced, its request fails, and the caller gets Groq's error dict although
\* OpenAI would have answered and the text is there for the heuristic extractor
C11_Witness ==
    /\ ForcedCallDone
    /\ ex.provider = "groq"
    /\ ex.text = TEXT_FULL
    /\ ex.file_bytes = "content"
    /\ ex.calls = <<"groq_text">>
    /\ ~ex.raised
    /\ ex.result.error = "Groq API error"
    /\ ~Failed(extract_with_openai_file(service, ex.upstream.openai_file))

\* C12: in auto mode, extract raises (all providers failed, no text for the
\* heuristic extractor) exactly when no provider succeeds and no text was
\* supplied: it returns no record then, and it never raises while text is there.
C12_ExhaustedOnlyWithoutText ==
    AutoCallDone
    => /\ (AllProvidersFail /\ ~Truthy(ex.text)) => (ex.raised /\ ex.result = ResultNone)
       /\ Truthy(ex.text) => ~ex.raised
       /\ ex.raised => (AllProvidersFail /\ ~Truthy(ex.text))

\* the file is there, OpenAI's file request fails, there is no text: Groq cannot be
\* asked, the heuristic extractor cannot run, the call raises
C12_Witness ==
    /\ AutoCallDone
    /\ ex.file_bytes = "content"
    /\ ex.text = TextNone
    /\ ex.calls = <<"openai_file">>
    /\ "error" \in extract_with_openai_file(service, ex.upstream.openai_file).result.keys
    /\ ex.raised

\* the upstream answer of an adapter is a network failure or does not parse
UpstreamFailure(adapter) ==
    CASE adapter = "openai_file" -> ex.upstream.openai_file.kind \in {"api_error", "unparsable"}
      [] adapter = "openai_text" -> ex.upstream.openai_text.kind \in {"api_error", "unparsable"}
      [] adapter = "groq_text"   -> ex.upstream.groq_text.kind \in {"api_error", "unparsable"}
      [] OTHER                   -> FALSE

\* C13: every adapter call (OpenAI file, OpenAI text, Groq text) returns; on a
\* network or parse failure it returns an explicit error marker and does not
\* raise to its caller.
C13_AdaptersReturnErrorMarkers ==
    ex.pc = "done"
    => \A i \in 1..Len(ex.calls) :
            (ex.calls[i] # "fallback_parser" /\ UpstreamFailure(ex.calls[i]))
            => /\ ~AdapterOutcome(ex.calls[i]).raised
               /\ "error" \in AdapterOutcome(ex.calls[i]).result.keys

\* the provider and the method that produced the result: those of the last call
ProducedBy ==
    LET last == ex.calls[Len(ex.calls)]
    IN  CASE last \in {"openai_file", "openai_text"} -> "openai"
          [] last = "groq_text"                       -> "groq"
          [] OTHER                                    -> "fallback_parser"

FileBased(processing_method) == processing_method \in {"direct_file", "direct_file_upload"}

\* C14: every non-error result returned by extract, in auto mode and with a
\* forced provider, names the provider that produced it and the method (file or
\* text) that produced it.
C14_ResultTagged ==
    (ex.pc = "done" /\ ~ex.raised /\ ex.result.kind = "dict" /\ "error" \notin ex.result.keys
        /\ ex.calls # <<>> /\ ProducedBy # "fallback_parser")
    => /\ "used_provider" \in ex.result.keys
       /\ ex.result.used_provider = ProducedBy
       /\ "processing_method" \in ex.result.keys
       /\ FileBased(ex.result.processing_method) <=> (ex.calls[Len(ex.calls)] = "openai_file")


\* ------------------------------------------------------------------ properties of the size thresholds

\* the name of the rule evaluate_file_rules returned to the call in flight
RuleReturned == IF sel.rule = 0 THEN "none" ELSE PROCESSING_RULES[sel.rule].name

IsTxt(file_name) == SplitExt(LowerName(file_name)) = EXT_TXT

\* C20: a size equal to a rule's threshold does not satisfy its strict condition:
\* a file of exactly 5 MB (5 * 1024 * 1024 bytes) does not match ">5" and a file
\* of exactly 1 MB does not match "<1"; one byte more (one byte less) does.
C20_StrictThresholds ==
    sel.rules_evaluated
    => /\ sel.file_size_bytes = 5 * MB => RuleReturned # "large_files"
       /\ sel.file_size_bytes = 5 * MB + 1 => RuleReturned = "large_files"
       /\ (IsTxt(sel.file_name) /\ sel.file_size_bytes = MB)
            => RuleReturned # "small_text_files"
       /\ (IsTxt(sel.file_name) /\ sel.file_size_bytes = MB - 1)
            => RuleReturned = "small_text_files"

\* a PDF of exactly 5 MB is given the PDF rule, not the rule of the large files
C20_Witness ==
    /\ sel.rules_evaluated
    /\ sel.file_name = RESUME_PDF
    /\ sel.file_size_bytes = 5 * MB
    /\ RuleReturned = "pdf_files"


\* ------------------------------------------------------------------ properties of validation

\* validate_data has returned a report
Reported == val.pc = "done" /\ ~val.report.raised

InSeq(x, s) == \E i \in 1..Len(s) : s[i] = x

\* C15: validate reports is_valid = true exactly when no required field
\* (personal_info, skills, experience, education) is missing and there is no
\* error; the warnings do not count.
C15_ValidIffNothingMissingNoErrors ==
    Reported
    => (val.report.is_valid
            <=> (val.report.missing_fields = {} /\ val.report.errors = <<>>))

\* a report with two warnings that is valid
C15_Witness ==
    /\ Reported
    /\ val.report.is_valid
    /\ Len(val.report.warnings) = 2
    /\ val.report.missing_fields = {}

\* C16: for every result (extraction data, without error marker) whose
\* personal_info has a name but no email, the report's errors contain the entry
\* of the missing email and is_valid is false, whatever the final confidence,
\* also when a high confidence of the provider is carried over.
C16_NameWithoutEmailInvalid ==
    (/\ Reported
     /\ ~val.data.error
     /\ val.data.personal_info.ty = "dict"
     /\ val.data.personal_info.name
     /\ ~val.data.personal_info.email)
    => /\ InSeq("Missing email in personal_info", val.report.errors)
       /\ ~val.report.is_valid

\* everything is there but the email, the provider's 0.95 is the final confidence
\* and the quality tier is high: the report is invalid
C16_Witness ==
    /\ Reported
    /\ ~val.data.error
    /\ val.data.personal_info = [ty |-> "dict", truthy |-> TRUE, name |-> TRUE, email |-> FALSE]
    /\ val.data.extraction_confidence = <<95>>
    /\ val.report.errors = <<"Missing email in personal_info">>
    /\ val.report.missing_fields = {}
    /\ val.report.confidence_score = 95
    /\ val.report.quality_assessment = "high"
    /\ ~val.report.is_valid

\* C17: every report returned by validate carries a confidence in [0,1]
\* (0..100 hundredths), for any combination of missing fields, errors and warnings.
C17_ConfidenceInUnitInterval ==
    Reported
    => /\ "confidence_score" \in val.report.keys
       /\ val.report.confidence_score >= 0
       /\ val.report.confidence_score <= 100

\* C18: validate never raises, for any shape of the result (a section absent,
\* empty or of the wrong type): every failure is reported in the report.
C18_ValidateNeverRaises ==
    val.pc = "done" => ~val.report.raised


\* ------------------------------------------------------------------ properties of the upload

\* the handler has called the extraction with the selected provider and has
\* decided the request: an error response, or the documents are to be stored
UploadExtracted ==
    /\ up.pc \in {"storing", "answered"}
    /\ up.stage \in {"extract", "validate", "store"}

\* C3: through the upload pipeline, whenever text is available for the request,
\* a failure of the selected provider's adapter is not answered as a failure:
\* the request goes on to be stored with a structured result without error
\* marker, from another provider or from the heuristic extractor.
C3_AdapterFailureDegrades ==
    (/\ UploadExtracted
     /\ StripTruthy(up.raw_text)
     /\ (up.extract_raised \/ "error" \in up.extracted.keys))
    => /\ up.stage = "store"
       /\ "error" \notin up.resume_data.keys
       /\ up.resume_data.used_provider # up.selected_provider

\* the sections of an extraction result
SECTIONS == {"personal_info", "skills", "experience", "education", "projects", "achievements"}

\* the result has the error marker and a populated section
ErrorWithSections(r) == "error" \in r.keys /\ r.truthy \cap SECTIONS # {}

\* C19: in every extraction result of a request - as the adapter and extract
\* returned it, and after the enrichment with the email found by the library -
\* the error marker and populated sections do not coexist.
C19_ErrorExcludesSections ==
    up.pc \in {"validate", "storing", "answered"}
    => /\ ~ErrorWithSections(up.extracted)
       /\ ~ErrorWithSections(up.resume_data)

\* ------------------------------------------------------------------ properties of the configuration getters

\* the configured value of a key is there and is not a valid mode
InvalidModeConfigured(e) ==
    /\ "DEFAULT_PROCESSING_MODE" \in DOMAIN e
    /\ Lower(e.DEFAULT_PROCESSING_MODE) \notin ProcessingMode

\* the configured priority is there and one of its pieces is not a provider
InvalidPriorityConfigured(e) ==
    /\ "PROVIDER_PRIORITY" \in DOMAIN e
    /\ \E i \in 1..Len(e.PROVIDER_PRIORITY) :
            Lower(Strip(e.PROVIDER_PRIORITY[i])) \notin LLMProvider

\* C21: the two getters of the defaults never raise to select: with an invalid
\* configured mode the mode read is the built-in default HYBRID, and with a
\* configured priority that has an invalid provider the priority read is the
\* built-in default [groq, openai, anthropic]; the call goes on in both cases.
C21_InvalidValuesGiveDefaults ==
    /\ (sel.pc # "idle" /\ InvalidModeConfigured(environ))
            => sel.explicit_config_mode = "hybrid"
    /\ (sel.priority_read /\ InvalidPriorityConfigured(environ))
            => /\ sel.preferred_providers = <<"groq", "openai", "anthropic">>
               /\ sel.pc \in {"line69", "line77", "returned", "raised"}
    /\ (sel.pc = "raised") => sel.picked_provider = NO_PROVIDER

\* both values are invalid and the call has returned a decision
C21_Witness ==
    /\ sel.pc = "returned"
    /\ InvalidModeConfigured(environ)
    /\ environ.DEFAULT_PROCESSING_MODE = "turbo"
    /\ InvalidPriorityConfigured(environ)
    /\ environ.PROVIDER_PRIORITY = <<"openai", "mistral">>
    /\ sel.priority_read
    /\ sel.selected_mode = "hybrid"
    /\ sel.preferred_providers = DEFAULT_PROVIDER_PRIORITY

\* ------------------------------------------------------------------ properties of the normalization

\* C22: the normalization is idempotent: for every text, normalizing the
\* normalized text gives the normalized text again, also for consecutive
\* hyphenation artifacts ("a- a- a") and for a hyphen directly before a heading.
C22_NormalizeIdempotent ==
    norm.pc = "twice" => norm.twice = norm.once

\* ------------------------------------------------------------------ properties of the provider pick

\* the positions of the effective order whose provider is available
AvailablePositions ==
    {i \in 1..Len(sel.preferred_providers) :
        IsAvailable(sel.available_providers, sel.preferred_providers[i])}

\* the providers the availability map marks available
GloballyAvailable ==
    {k \in DOMAIN sel.available_providers : sel.available_providers[k]}

\* the provider pick of the call in flight has been made
Picked == sel.pc \in {"line77", "returned", "raised"}

\* C23: the provider picked by select is the first available provider of the
\* effective order; when none of that order is available it is a globally
\* available provider; when no provider is available at all the call fails
\* with the no-provider condition and returns no decision.
C23_ProviderPick ==
    Picked =>
        /\ AvailablePositions # {} =>
              /\ sel.pc # "raised"
              /\ \E i \in AvailablePositions :
                    /\ sel.picked_provider = sel.preferred_providers[i]
                    /\ \A j \in AvailablePositions : i <= j
        /\ (AvailablePositions = {} /\ GloballyAvailable # {}) =>
              /\ sel.pc # "raised"
              /\ sel.picked_provider \in GloballyAvailable
        /\ GloballyAvailable = {} =>
              /\ sel.pc = "raised"
              /\ sel.picked_provider = NO_PROVIDER
              /\ sel.selected_provider = NO_PROVIDER
        /\ sel.pc = "raised" => GloballyAvailable = {}

\* the first two providers of the order are not available, the third is
C23_Witness ==
    /\ sel.pc = "line77"
    /\ sel.preferred_providers = <<"openai", "anthropic", "groq">>
    /\ AvailablePositions = {3}
    /\ sel.picked_provider = "groq"

\* ------------------------------------------------------------------ properties of the order of the calls

\* the place of an adapter in the priority order: OpenAI (file, then text), Groq,
\* and after the providers the heuristic extractor
Rank(adapter) ==
    CASE adapter = "openai_file"     -> 1
      [] adapter = "openai_text"     -> 2
      [] adapter = "groq_text"       -> 3
      [] adapter = "fallback_parser" -> 4

\* C24: in auto mode the providers are called one at a time in priority order:
\* a call is made only when every call made before it has failed, so nothing
\* is called after the first non-error result; Groq is called only after an
\* attempt of OpenAI; and no path (OpenAI file, OpenAI text, Groq text) is
\* called twice in one request.
C24_SequentialNoRetry ==
    AutoCallDone =>
        /\ \A i, j \in 1..Len(ex.calls) : i < j => Rank(ex.calls[i]) < Rank(ex.calls[j])
        /\ \A i \in 1..(Len(ex.calls) - 1) :
              /\ ex.calls[i] # "fallback_parser"
              /\ Failed(AdapterOutcome(ex.calls[i]))
        /\ Called("groq_text") => (Called("openai_file") \/ Called("openai_text"))
        /\ (~ex.raised /\ ex.calls # <<>> /\ ex.calls[Len(ex.calls)] # "fallback_parser")
              => ~Failed(AdapterOutcome(ex.calls[Len(ex.calls)]))

\* OpenAI's file request returns an error marker, Groq is asked next and answers
C24_Witness ==
    /\ AutoCallDone
    /\ ex.calls = <<"openai_file", "groq_text">>
    /\ "error" \in AdapterOutcome("openai_file").result.keys
    /\ ~Failed(AdapterOutcome("groq_text"))
    /\ ~ex.raised
    /\ ex.result.used_provider = "groq"

\* ------------------------------------------------------------------ properties of the confidence

\* the report of the call carries a confidence
Scored == Reported /\ "confidence_score" \in val.report.keys

\* 100 less 15 per missing field, 10 per error and 5 per warning of the report,
\* kept within 0..100 (hundredths)
ComputedScore ==
    LET raw == 100 - 15 * Cardinality(val.report.missing_fields)
                   - 10 * Len(val.report.errors) - 5 * Len(val.report.warnings)
    IN  IF raw < 0 THEN 0 ELSE IF raw > 100 THEN 100 ELSE raw

\* C25: the confidence of a report is the larger of the computed score (100
\* less 15 per missing field, 10 per error, 5 per warning, over 100, clamped to
\* [0,1]) and the confidence the provider reported: never lower than the
\* provider's, and the computed score when the provider reported none.
C25_ConfidenceFormula ==
    Scored =>
        /\ val.data.extraction_confidence = <<>>
              => val.report.confidence_score = ComputedScore
        /\ val.data.extraction_confidence # <<>>
              => /\ val.report.confidence_score >= val.data.extraction_confidence[1]
                 /\ val.report.confidence_score >= ComputedScore
                 /\ val.report.confidence_score
                        \in {ComputedScore, val.data.extraction_confidence[1]}

\* the computed score is below the provider's 0.75, which is the confidence
C25_Witness ==
    /\ Scored
    /\ val.data.extraction_confidence = <<75>>
    /\ ComputedScore = 45
    /\ val.report.confidence_score = 75

\* the computed score is above the provider's 0.75 and is the confidence
C25_WitnessComputed ==
    /\ Scored
    /\ val.data.extraction_confidence = <<75>>
    /\ ComputedScore = 90
    /\ val.report.confidence_score = 90

\* ------------------------------------------------------------------ properties of the entries

\* how often x occurs in the sequence s
Count(x, s) == Cardinality({i \in 1..Len(s) : s[i] = x})

\* the entries of a section of the validated dict (none unless it is a list)
Entries(section) ==
    IF section = "experience" THEN val.data.experience.items ELSE val.data.education.items

\* the report has, for the entries of the section, one error per entry without
\* both attributes, one warning per entry without exactly one of them (and no
\* error for it), and nothing for an entry with both
EntriesJudged(section) ==
    /\ Count(MissingBoth(section), val.report.errors) = Count("neither", Entries(section))
    /\ Count(MissingFirst(section), val.report.warnings)
            = Count("second_only", Entries(section))
    /\ Count(MissingSecond(section), val.report.warnings)
            = Count("first_only", Entries(section))
    /\ Count(MissingBoth(section), val.report.warnings) = 0
    /\ Count(MissingFirst(section), val.report.errors) = 0
    /\ Count(MissingSecond(section), val.report.errors) = 0
    /\ Count(NotFormatted(section), val.report.errors) = Count("non_dict", Entries(section))
    /\ Entries(section) # <<>> => Count(EmptyOrNotAList(section), val.report.errors) = 0

\* C26: for each experience item (company, position) and each education item
\* (institution, degree): both attributes missing is an error, exactly one
\* missing is a warning and no error, both present is neither.
C26_EntryErrorsAndWarnings ==
    Scored => (EntriesJudged("experience") /\ EntriesJudged("education"))

\* three experience entries, one not a dict, one without company, one without
\* position, and an education entry without both attributes
C26_Witness ==
    /\ Scored
    /\ val.data.experience.items = <<"non_dict", "second_only", "first_only">>
    /\ val.data.education.items = <<"neither">>
    /\ val.data.personal_info = [ty |-> "dict", truthy |-> TRUE, name |-> TRUE, email |-> TRUE]
    /\ val.data.skills = "dict_content"
    /\ val.report.errors = <<"Experience entry is not properly formatted",
                             "Missing both institution and degree in education">>
    /\ val.report.warnings = <<"Missing company in experience",
                               "Missing position in experience">>

\* ------------------------------------------------------------------ properties of the confidence floor

\* the confidences the adapters and the heuristic extractor write into a result
AdapterConfidences ==
    LET answer == [kind |-> "object", payload |-> PAYLOAD_FULL]
    IN  {extract_with_openai_file(service, answer).result.extraction_confidence,
         extract_with_openai_text(service, answer).result.extraction_confidence,
         extract_with_groq_text(service, answer).result.extraction_confidence,
         fallback_text_parsing(TEXT_PLAIN).extraction_confidence}

\* C27: the results without error marker of the adapters and of the heuristic
\* extractor carry the fixed confidences 0.95, 0.9, 0.85 and 0.75; the report
\* of such a result has a confidence of at least that value and a quality tier
\* that is never "low", however many fields are missing and however many errors
\* and warnings there are, also when is_valid is false.
C27_ConfidenceFloor ==
    /\ AdapterConfidences = {95, 90, 85, 75}
    /\ (/\ Reported
        /\ ~val.data.error
        /\ val.data.extraction_confidence # <<>>
        /\ val.data.extraction_confidence[1] \in AdapterConfidences)
       => /\ "confidence_score" \in val.report.keys
          /\ val.report.confidence_score >= val.data.extraction_confidence[1]
          /\ val.report.quality_assessment \in {"medium", "high"}

\* the heuristic extractor's 0.75 on a dict with every required field missing
\* and sections of the wrong type: the computed score is 0.1, the report is
\* invalid, and the tier is medium
C27_Witness ==
    /\ Reported
    /\ ~val.data.error
    /\ val.data.extraction_confidence = <<75>>
    /\ val.report.missing_fields = REQUIRED_FIELDS
    /\ Len(val.report.errors) = 3
    /\ ~val.report.is_valid
    /\ ComputedScore = 10
    /\ val.report.confidence_score = 75
    /\ val.report.quality_assessment = "medium"

\* ------------------------------------------------------------------ properties of the configuration requests

\* the step is the handler of update_config answering with an error
UpdateConfigFails ==
    /\ adm.op = "update_config"
    /\ adm.phase = "queued"
    /\ adm'.phase = "answered"
    /\ adm'.status # 200

\* C28: an update_config request that ends in an error (an invalid provider in
\* provider_priority, no change provided) leaves DEFAULT_PROCESSING_MODE,
\* PROVIDER_PRIORITY, ENABLE_COST_OPTIMIZATION and ENABLE_AUTO_FALLBACK exactly
\* as they were before the request.
C28_FailedUpdateChangesNothing ==
    [][UpdateConfigFails => environ' = environ]_vars

\* ------------------------------------------------------------------ properties of an invalid configured mode

\* C29: with DEFAULT_PROCESSING_MODE set to a value that is no valid mode, select
\* still takes the configuration as explicit: for every file the rules are
\* bypassed, the mode of the decision is the built-in default HYBRID, and the
\* reasoning reports an explicit configuration.
C29_InvalidModeStillExplicit ==
    (SelectDecided /\ InvalidModeConfigured(environ)) =>
        /\ sel.has_explicit_config
        /\ ~sel.rules_evaluated /\ sel.rule = 0
        /\ sel.selected_mode = "hybrid"
        /\ sel.reasoning[1] = "Explicit configuration: "
        /\ sel.reasoning[2] = "hybrid"
        /\ sel.reasoning[3] = " mode (rules bypassed)"

\* resume.pdf of 6,000,000 bytes, which the rule of the large files would send to
\* COMPLETE, is decided as HYBRID under DEFAULT_PROCESSING_MODE=turbo
C29_Witness ==
    /\ sel.pc = "returned"
    /\ "DEFAULT_PROCESSING_MODE" \in DOMAIN environ
    /\ environ.DEFAULT_PROCESSING_MODE = "turbo"
    /\ sel.file_name = RESUME_PDF /\ sel.file_size_bytes = 6000000
    /\ 1 \in RulesMatching
    /\ sel.selected_mode = "hybrid"
    /\ sel.reasoning[1] = "Explicit configuration: "

\* ------------------------------------------------------------------ properties of the authentication

\* the step is a handler answering a request and changing os.environ
HandlerChangesConfiguration ==
    /\ adm.phase = "queued"
    /\ adm'.phase = "answered"
    /\ environ' # environ

\* C30: every administrative operation that changes the shared configuration
\* (update_config, apply_preset, force_provider, clear_session_overrides) does
\* so only for a request that passes the verification of the API key: a
\* request without the key, or with another key, changes no value.
C30_ChangesNeedVerification ==
    [][HandlerChangesConfiguration
          => verify_api_key(adm'.x_api_key, getenv(environ, "CONFIG_API_KEY", None)) = 200]_vars

\* the same for update_config alone
C30_UpdateConfigNeedsVerification ==
    [][(HandlerChangesConfiguration /\ adm.op = "update_config")
          => verify_api_key(adm'.x_api_key, getenv(environ, "CONFIG_API_KEY", None)) = 200]_vars

====
